---- MODULE Spec2Model ----
(***************************************************************************)
(* Model of the schedule-image pipeline of project_planner (src/app.js and *)
(* the upload wiring in src/unnamed/part_000).                             *)
(*                                                                         *)
(* The pixel buffer is modelled as a white sheet on which at most two      *)
(* axis-aligned rectangles are painted in order (painter's layers).  A     *)
(* prefix-sum rectangle query is the exact number of pixels of the         *)
(* rectangle whose colour satisfies the mask predicate; a Math.random      *)
(* sample run is a choice of how many of the samples fall on each visible  *)
(* layer.  All coordinates are integer pixels, as in the code.             *)
(*                                                                         *)
(* SpecClassify and SpecRerun cover computeAvailFromFrozenNav; SpecNav     *)
(* covers Phase 1 of successive uploads (precompute, nav builder, the      *)
(* LAST_PRE / LAST_NAV globals); SpecTicks covers one upload for every raw *)
(* tick list of the left lane, SpecDividers one upload for every printed   *)
(* grid of the divider walk, SpecLadder one upload for every course of the *)
(* ladder walk.  SpecSession covers resetSession and publishSession,       *)
(* SpecUpload the two phases of overlapping uploads, SpecStore the storage *)
(* API of the saved schedules and SpecQuery one query over a saved list.   *)
(* SpecReplay covers calls of buildGlobalTickLadder on the published       *)
(* precompute with resetAfterAddScheduleUI in between, and SpecPrefix the  *)
(* prefix table of every small mask with one rectSum query on it.          *)
(***************************************************************************)
EXTENDS Integers, Sequences, FiniteSets, TLC

VARIABLES
    pre,          \* LAST_PRE as handed to computeAvailFromFrozenNav: w, h, imgData (layers)
    nav,          \* the frozen nav handed to computeAvailFromFrozenNav
    spillPolicy,  \* opts.spillPolicy of the call
    rnd,          \* what Math.random produced in the last run: per cell, the purple hits
                  \* of the 160 samples and the split of the 140 samples over the layers
    cells,        \* per cell of the last run: purpleCount, classifySlotSample's result, the spill verdict
    availRes,     \* return value of the last computeAvailFromFrozenNav call
    prevAvail,    \* return value of the call before it (same pre, nav, opts)
    LAST_PRE,     \* window.LAST_PRE and window.__LAST_PRE__ (always assigned together)
    LAST_NAV,     \* window.LAST_NAV and window.__LAST_NAV__ (always assigned together)
    TICK_LANE,    \* window.__TICK_LANE__
    session,      \* window.__SAD_SESSION__
    phase1,       \* __PHASE1__, the stash of upload.js
    navLog,       \* what the stages of the last computeFrozenNavFromPre call returned
    navRes,       \* return value of the last buildAndPublishNav call
    status,       \* what showStatus displayed last
    clock,        \* Date.now(), counted in uploads
    storage,      \* localStorage[LS_KEY_SCHEDULES]: whether the key is present, and the list its text parses to
    queryRes,     \* return value of the last queryAllSavedSchedulesDayRange call
    pending,      \* the runs of runPhase1FromFile that wait for their image to decode
    selected,     \* the file the file input holds: the one selected last
    ladderCalls,  \* the calls of buildGlobalTickLadder made from outside the nav builder:
                  \* their arguments, window.__TICK_LANE__ at the call, and what they returned
    prefixRun     \* a binary mask, the table buildPrefixFromMask built for it and the
                  \* rectSum queries made on the table

classifyVars == <<pre, nav, spillPolicy, rnd, cells, availRes, prevAvail>>

navVars == <<LAST_PRE, LAST_NAV, TICK_LANE, session, phase1, navLog, navRes, status, clock>>

storeVars == <<storage, queryRes>>

uploadVars == <<pending, selected>>

probeVars == <<ladderCalls, prefixRun>>

vars == <<pre, nav, spillPolicy, rnd, cells, availRes, prevAvail,
          LAST_PRE, LAST_NAV, TICK_LANE, session, phase1, navLog, navRes, status, clock,
          storage, queryRes, pending, selected, ladderCalls, prefixRun>>

----------------------------------------------------------------------------
(* Bounds *)

MaxSlots == 2     \* slot bands of the navs that are enumerated
Margin == 1       \* sample counts are enumerated within Margin of every threshold
MaxUploads == 2   \* files selected one after the other
MaxBadLines == 2  \* grid lines missing or displaced in one image
MaxPeaks == 2     \* grid lines the ladder finds before the lines fade
MaxGrid == 3      \* half-hour slots of the saved grids that are queried
MaxCalls == 3     \* calls of resetSession and publishSession in a row
MaxOps == 2       \* calls of the storage API in a row
MaxTicks == 7     \* longest raw tick list that is enumerated
GridRungs == 6    \* horizontal grid lines of the full test sheet

----------------------------------------------------------------------------
(* Program constants *)

WEEKDAYS == <<"Monday", "Tuesday", "Wednesday", "Thursday", "Friday">>
NEAR_WHITE_THRESH == 240
CAL_PICK_TOP == 3
BG_TOL_BASE == 34
BG_TOL_MAX == 60
PURPLE_WORK == [r |-> 213, g |-> 43, b |-> 255, tol |-> 55]
PurpleSamples == 160
ClassifySamples == 140

Max(a, b) == IF a >= b THEN a ELSE b
Min(a, b) == IF a <= b THEN a ELSE b
Abs(a) == IF a >= 0 THEN a ELSE 0 - a

clamp(n, lo, hi) == Max(lo, Min(hi, n))

isNearWhite(c) ==
    c.r >= NEAR_WHITE_THRESH /\ c.g >= NEAR_WHITE_THRESH /\ c.b >= NEAR_WHITE_THRESH

isBgMatch(c, bg) ==
    /\ Abs(c.r - bg.r) <= bg.tol
    /\ Abs(c.g - bg.g) <= bg.tol
    /\ Abs(c.b - bg.b) <= bg.tol

isPurpleMatch(c) ==
    /\ Abs(c.r - PURPLE_WORK.r) <= PURPLE_WORK.tol
    /\ Abs(c.g - PURPLE_WORK.g) <= PURPLE_WORK.tol
    /\ Abs(c.b - PURPLE_WORK.b) <= PURPLE_WORK.tol

----------------------------------------------------------------------------
(* Pixel buffer: rectangles and painter's layers *)

Rect(x0, x1, y0, y1) == [x0 |-> x0, x1 |-> x1, y0 |-> y0, y1 |-> y1]
EmptyRect == Rect(0, 0, 0, 0)

Area(R) == IF R.x1 > R.x0 /\ R.y1 > R.y0 THEN (R.x1 - R.x0) * (R.y1 - R.y0) ELSE 0

Inter(A, B) == Rect(Max(A.x0, B.x0), Min(A.x1, B.x1), Max(A.y0, B.y0), Min(A.y1, B.y1))

InRect(x, y, R) == R.x0 <= x /\ x < R.x1 /\ R.y0 <= y /\ y < R.y1

WHITE == [r |-> 255, g |-> 255, b |-> 255]
RED == [r |-> 255, g |-> 0, b |-> 0]
GREY == [r |-> 230, g |-> 230, b |-> 230]
PURPLE == [r |-> 213, g |-> 43, b |-> 255]
OFFWHITE == [r |-> 245, g |-> 245, b |-> 245]

NoLayer == [rect |-> EmptyRect, c |-> WHITE]

\* imgData[idxOf(x, y, w)]: the colour of the topmost layer over (x, y)
ColorAt(p, x, y) ==
    IF InRect(x, y, p.layers[2].rect) THEN p.layers[2].c
    ELSE IF InRect(x, y, p.layers[1].rect) THEN p.layers[1].c
    ELSE WHITE

\* number of pixels of R showing the sheet, layer 1 and layer 2
VisArea(p, R) ==
    LET a1 == Area(Inter(R, p.layers[1].rect))
        a2 == Area(Inter(R, p.layers[2].rect))
        a12 == Area(Inter(Inter(R, p.layers[1].rect), p.layers[2].rect))
    IN <<Area(R) - a1 - a2 + a12, a1 - a12, a2>>

LayerColor(p, k) == IF k = 1 THEN WHITE ELSE p.layers[k - 1].c

\* rectSum(whiteP, W, x0, y0, x1, y1): near-white pixels of [x0,x1) x [y0,y1)
WhiteCount(p, R) ==
    LET v == VisArea(p, R)
    IN (IF isNearWhite(LayerColor(p, 1)) THEN v[1] ELSE 0)
     + (IF isNearWhite(LayerColor(p, 2)) THEN v[2] ELSE 0)
     + (IF isNearWhite(LayerColor(p, 3)) THEN v[3] ELSE 0)

----------------------------------------------------------------------------
(* Random sampling.  A draw is <<n1, n2, n3>>: how many of the samples fell  *)
(* on the sheet, on layer 1 and on layer 2.  (x0 + Math.random()*(x1-x0))|0  *)
(* reaches every pixel of the rectangle, so every split over the layers that *)
(* are visible in the rectangle can occur.                                   *)

CeilDiv(a, b) == (a + b - 1) \div b

Near(t) == (t - Margin) .. (t + Margin - 1)

\* the least counts that clear the fraction thresholds of the classifier
Interesting(N) ==
    {0, N} \cup
    (IF N = PurpleSamples
       THEN Near(CeilDiv(18 * N, 100))
       ELSE Near(CeilDiv(50 * N, 100)) \cup Near(CeilDiv(82 * N, 100))
            \cup Near(CeilDiv(55 * N, 100)) \cup Near(((12 * N) \div 100) + 1))

DrawCounts(N) == { m \in Interesting(N) \cup { N - k : k \in Interesting(N) } : m >= 0 /\ m <= N }

NoDraw == <<0, 0, 0>>

DrawSet(p, R, N) ==
    LET v == VisArea(p, R)
        C(k) == IF v[k] = 0 THEN {0} ELSE DrawCounts(N)
    IN { t \in { <<N - n2 - n3, n2, n3>> : n2 \in C(2), n3 \in C(3) } :
            t[1] >= 0 /\ (v[1] = 0 => t[1] = 0) }

CountDraw(p, s, Pred(_)) ==
      (IF Pred(LayerColor(p, 1)) THEN s[1] ELSE 0)
    + (IF Pred(LayerColor(p, 2)) THEN s[2] ELSE 0)
    + (IF Pred(LayerColor(p, 3)) THEN s[3] ELSE 0)

----------------------------------------------------------------------------
(* Layer J: availability from a frozen nav *)

\* the rectangle measurePurpleFrac and classifySlotSample sample from
SampleRect(p, slotBand, dayRegion) ==
    LET x0 == clamp(dayRegion.x0 + 8, 0, p.w - 1)
        x1 == clamp(dayRegion.x1 - 8, x0 + 1, p.w)
        y0 == clamp(slotBand.yStart + 2, 0, p.h - 1)
        y1 == clamp(slotBand.yEnd - 2, y0 + 1, p.h)
    IN Rect(x0, x1, y0, y1)

\* purpleCount values the 160 samples of measurePurpleFrac can give on rectangle R
\* (the code returns purpleCount / samples)
measurePurpleFrac(p, R) ==
    { CountDraw(p, s, isPurpleMatch) : s \in DrawSet(p, R, PurpleSamples) }

isWorkCount(purpleCount) == purpleCount * 100 >= 18 * PurpleSamples

isOccupied(c, bg) == ~isNearWhite(c) /\ ~isPurpleMatch(c) /\ ~isBgMatch(c, bg)

\* classifySlotSample with bgFracMin taken as 0.50 (the busyFracMin value)
classifySlotSample_BgMinHalf(p, slotBand, dayRegion, bg, s140) ==
    LET isBg(c) == isBgMatch(c, bg)
        isNonWhite(c) == ~isNearWhite(c)
        isOcc(c) == isOccupied(c, bg)
        bgCount == CountDraw(p, s140, isBg)
        nonWhiteCount == CountDraw(p, s140, isNonWhite)
        purpleCount == CountDraw(p, s140, isPurpleMatch)
        occupiedCount == CountDraw(p, s140, isOcc)
        free == IF occupiedCount * 100 >= 50 * ClassifySamples THEN FALSE
                ELSE \/ bgCount * 100 >= 50 * ClassifySamples
                     \/ (/\ bgCount * 100 >= 55 * ClassifySamples
                         /\ nonWhiteCount * 100 <= 12 * ClassifySamples)
    IN [ok |-> TRUE, reason |-> "", free |-> free, bgCount |-> bgCount,
        nonWhiteCount |-> nonWhiteCount, purpleCount |-> purpleCount,
        occupiedCount |-> occupiedCount]

classifySlotSample(p, slotBand, dayRegion, bg, s140) ==
    LET isBg(c) == isBgMatch(c, bg)
        isNonWhite(c) == ~isNearWhite(c)
        isOcc(c) == isOccupied(c, bg)
        bgCount == CountDraw(p, s140, isBg)
        nonWhiteCount == CountDraw(p, s140, isNonWhite)
        purpleCount == CountDraw(p, s140, isPurpleMatch)
        occupiedCount == CountDraw(p, s140, isOcc)
        bad(why) == [ok |-> FALSE, reason |-> why, free |-> FALSE, bgCount |-> 0,
                     nonWhiteCount |-> 0, purpleCount |-> 0, occupiedCount |-> 0]
        res(f) == [ok |-> TRUE, reason |-> "", free |-> f, bgCount |-> bgCount,
                   nonWhiteCount |-> nonWhiteCount, purpleCount |-> purpleCount,
                   occupiedCount |-> occupiedCount]
    IN IF dayRegion.x1 <= dayRegion.x0 THEN bad("bad dayRegion")
       ELSE IF slotBand.yEnd <= slotBand.yStart THEN bad("bad slotBand")
       ELSE IF occupiedCount * 100 >= 50 * ClassifySamples THEN res(FALSE)
       ELSE res(\/ bgCount * 100 >= 82 * ClassifySamples
                \/ (/\ bgCount * 100 >= 55 * ClassifySamples
                    /\ nonWhiteCount * 100 <= 12 * ClassifySamples))

\* rectNonWhiteFrac as <<numerator, denominator>>; rectWhiteFrac is 0 on an empty rectangle
rectNonWhiteFrac(p, R) ==
    IF Area(R) <= 0 THEN <<1, 1>> ELSE <<Area(R) - WhiteCount(p, R), Area(R)>>

FracLE(f, num, den) == f[1] * den <= num * f[2]
FracGE(f, num, den) == f[1] * den >= num * f[2]

\* the five rectangles detectGridSpill measures
SpillRects(p, slotBand, dayRegion) ==
    LET x0 == clamp(dayRegion.x0, 0, p.w - 1)
        x1 == clamp(dayRegion.x1, x0 + 1, p.w)
        y0 == clamp(slotBand.yStart, 0, p.h - 1)
        y1 == clamp(slotBand.yEnd, y0 + 1, p.h)
        ix0 == clamp(x0 + 8, 0, p.w - 1)
        ix1 == clamp(x1 - 8, ix0 + 1, p.w)
        iy0 == clamp(y0 + 2, 0, p.h - 1)
        iy1 == clamp(y1 - 2, iy0 + 1, p.h)
        cxPad == Max(10, ((ix1 - ix0) * 18) \div 100)
        cyPad == Max(4, ((iy1 - iy0) * 18) \div 100)
        cx0 == clamp(ix0 + cxPad, 0, p.w - 1)
        cx1 == clamp(ix1 - cxPad, cx0 + 1, p.w)
        cy0 == clamp(iy0 + cyPad, 0, p.h - 1)
        cy1 == clamp(iy1 - cyPad, cy0 + 1, p.h)
        lx1 == clamp(ix0 + 8, ix0 + 1, ix1)
        rx0 == clamp(ix1 - 8, ix0, ix1 - 1)
        ty1 == clamp(iy0 + 4, iy0 + 1, iy1)
        by0 == clamp(iy1 - 4, iy0, iy1 - 1)
    IN [center |-> Rect(cx0, cx1, cy0, cy1),
        left |-> Rect(ix0, lx1, iy0, iy1),
        right |-> Rect(rx0, ix1, iy0, iy1),
        top |-> Rect(ix0, ix1, iy0, ty1),
        bot |-> Rect(ix0, ix1, by0, iy1)]

detectGridSpill(p, slotBand, dayRegion) ==
    LET q == SpillRects(p, slotBand, dayRegion)
        centerNW == rectNonWhiteFrac(p, q.center)
        leftNW == rectNonWhiteFrac(p, q.left)
        rightNW == rectNonWhiteFrac(p, q.right)
        topNW == rectNonWhiteFrac(p, q.top)
        botNW == rectNonWhiteFrac(p, q.bot)
        edgeSpill == FracLE(centerNW, 10, 100)
                     /\ (FracGE(leftNW, 25, 100) \/ FracGE(rightNW, 25, 100))
        hSpill == FracLE(centerNW, 10, 100)
                  /\ (FracGE(topNW, 22, 100) \/ FracGE(botNW, 22, 100))
    IN [ok |-> TRUE, spill |-> (edgeSpill \/ hSpill)]

\* window.trimDayRegionByDivider is not defined anywhere, so the inset-only branch runs
safeTrimDayRegion(region, insetPx) ==
    LET x0 == region.x0 + insetPx
        x1 == region.x1 - insetPx
    IN IF x1 <= x0 + 4 THEN region ELSE [x0 |-> x0, x1 |-> x1]


WeekdaySet == { WEEKDAYS[k] : k \in 1..5 }

NullBg == [r |-> -1, g |-> -1, b |-> -1, tol |-> -1]

NoAvail == [version |-> 0, anchorStartTime |-> "", slots |-> 0,
            days |-> [d \in WeekdaySet |-> <<>>], workDays |-> [d \in WeekdaySet |-> <<>>]]

NoRes == [ok |-> FALSE, reason |-> "not run", avail |-> NoAvail]

NoBase == [ok |-> FALSE, reason |-> "not called", free |-> FALSE, bgCount |-> 0,
           nonWhiteCount |-> 0, purpleCount |-> 0, occupiedCount |-> 0]

\* the cells the double loop of computeAvailFromFrozenNav visits
CellsOf(n) == { <<d, i>> : d \in DOMAIN n.dayRegions, i \in 1..Len(n.slotBands) }

\* ClassifyCell with a work cell recorded as busy instead of available
ClassifyCell_WorkBusy(p, n, policy, d, i, s) ==
    LET region == safeTrimDayRegion(n.dayRegions[d], 6)
        slot == n.slotBands[i]
        isWork == isWorkCount(s.purple160)
        base == IF isWork THEN NoBase
                ELSE classifySlotSample(p, slot, region, n.bgWhite, s.s140)
        trySpill == ~isWork /\ base.ok /\ ~base.free /\ policy = "softFree"
        spill == IF trySpill THEN detectGridSpill(p, slot, region).spill ELSE FALSE
    IN [purpleCount |-> s.purple160, work |-> isWork, base |-> base,
        spillTried |-> trySpill, spill |-> spill,
        free |-> ~isWork /\ base.ok /\ (base.free \/ spill)]

\* one iteration of the inner loop, given what Math.random produced for it
ClassifyCell(p, n, policy, d, i, s) ==
    LET region == safeTrimDayRegion(n.dayRegions[d], 6)
        slot == n.slotBands[i]
        purpleCount == s.purple160
        isWork == isWorkCount(purpleCount)
        base == IF isWork THEN NoBase
                ELSE classifySlotSample(p, slot, region, n.bgWhite, s.s140)
        trySpill == ~isWork /\ base.ok /\ ~base.free /\ policy = "softFree"
        spill == IF trySpill THEN detectGridSpill(p, slot, region).spill ELSE FALSE
        free == IF isWork THEN TRUE
                ELSE IF ~base.ok THEN FALSE
                ELSE IF base.free THEN TRUE
                ELSE spill
    IN [purpleCount |-> purpleCount, work |-> isWork, base |-> base,
        spillTried |-> trySpill, spill |-> spill, free |-> free]

\* the double loop of computeAvailFromFrozenNav: one ClassifyCell per (day, slot);
\* no cell is visited when the input checks reject the nav
ClassifyAll(p, n, policy, r) ==
    IF n.slotBands = <<>> \/ n.bgWhite = NullBg THEN <<>>
    ELSE [c \in CellsOf(n) |-> ClassifyCell(p, n, policy, c[1], c[2], r[c])]

\* computeAvailFromFrozenNav without the line that stores workArr in workDaysOut
computeAvailFromFrozenNav_NoWorkDays(n, out) ==
    [ok |-> n.slotBands # <<>> /\ n.bgWhite # NullBg,
     reason |-> "",
     avail |-> [version |-> 1,
                anchorStartTime |-> n.anchorStartTime,
                slots |-> Len(n.slotBands),
                days |-> [d \in WeekdaySet |->
                            IF d \in DOMAIN n.dayRegions /\ out # <<>>
                              THEN [i \in 1..Len(n.slotBands) |-> out[<<d, i>>].free]
                              ELSE <<>>],
                workDays |-> [d \in WeekdaySet |-> <<>>]]]

\* the return value of computeAvailFromFrozenNav, out being what its loop produced
computeAvailFromFrozenNav(n, out) ==
    IF n.slotBands = <<>> THEN
        [ok |-> FALSE, reason |-> "bad nav (missing dayRegions/slotBands)", avail |-> NoAvail]
    ELSE IF n.bgWhite = NullBg THEN
        [ok |-> FALSE, reason |-> "missing bg/bgWhite in nav", avail |-> NoAvail]
    ELSE
        LET arr(d) == IF d \in DOMAIN n.dayRegions
                        THEN [i \in 1..Len(n.slotBands) |-> out[<<d, i>>].free]
                        ELSE <<>>
            workArr(d) == IF d \in DOMAIN n.dayRegions
                            THEN [i \in 1..Len(n.slotBands) |-> out[<<d, i>>].work]
                            ELSE <<>>
        IN [ok |-> TRUE, reason |-> "",
            avail |-> [version |-> 1,
                       anchorStartTime |-> n.anchorStartTime,
                       slots |-> Len(n.slotBands),
                       days |-> [d \in WeekdaySet |-> arr(d)],
                       workDays |-> [d \in WeekdaySet |-> workArr(d)]]]

\* what Math.random can produce for one cell: 160 purple samples, then 140
\* classification samples unless the cell was taken as work
CellDraws(p, n, d, i) ==
    LET R == SampleRect(p, n.slotBands[i], safeTrimDayRegion(n.dayRegions[d], 6))
    IN UNION { { [purple160 |-> a, s140 |-> b] :
                   b \in IF isWorkCount(a) THEN {NoDraw} ELSE DrawSet(p, R, ClassifySamples) } :
               a \in measurePurpleFrac(p, R) }

RECURSIVE RndFns(_, _, _)
RndFns(p, n, todo) ==
    IF todo = {} THEN { <<>> }
    ELSE LET c == CHOOSE x \in todo : TRUE
         IN { f @@ (c :> s) : f \in RndFns(p, n, todo \ {c}), s \in CellDraws(p, n, c[1], c[2]) }

RndSet(p, n) ==
    IF n.slotBands = <<>> \/ n.bgWhite = NullBg THEN { <<>> } ELSE RndFns(p, n, CellsOf(n))

----------------------------------------------------------------------------
(* The sheets and navs that are enumerated.  The grid of the test sheet has  *)
(* six dividers and horizontal lines every 30 px; one cell (the probe) is    *)
(* painted, every other cell is blank.                                       *)

Sheet == [w |-> 840, h |-> 600, tallH |-> 1400, divX0 |-> 90, dayW |-> 146, tickY0 |-> 40, tickDy |-> 30]

SheetDividerXs == [k \in 1..6 |-> Sheet.divX0 + (k - 1) * Sheet.dayW]

SheetRegion(k) == [x0 |-> SheetDividerXs[k], x1 |-> SheetDividerXs[k + 1]]

SheetTick(i) == Sheet.tickY0 + (i - 1) * Sheet.tickDy

SheetBand(i) == [yStart |-> SheetTick(i) + 2, yEnd |-> SheetTick(i + 1) - 1,
                 topTick |-> SheetTick(i), botTick |-> SheetTick(i + 1)]

SheetBg == [r |-> 255, g |-> 255, b |-> 255, tol |-> BG_TOL_BASE]

\* a stored background that pure white does not match
DimBg == [r |-> 215, g |-> 215, b |-> 215, tol |-> BG_TOL_BASE]

DayIndex(d) == CHOOSE k \in 1..5 : WEEKDAYS[k] = d

PatternSet ==
    { [kind |-> "solid", c |-> RED], [kind |-> "solid", c |-> GREY],
      [kind |-> "solid", c |-> PURPLE], [kind |-> "ring", c |-> RED],
      [kind |-> "leftHalf", c |-> RED], [kind |-> "leftHalf", c |-> PURPLE],
      [kind |-> "edge", c |-> RED], [kind |-> "mix", c |-> RED],
      [kind |-> "patch", c |-> OFFWHITE] }

\* the two layers painted on cell (day k, slot i) for a pattern
PaintCell(k, i, pat) ==
    LET reg == SheetRegion(k)
        band == SheetBand(i)
        cell == Rect(reg.x0, reg.x1, band.yStart, band.yEnd)
        sizes == [w |-> Sheet.w, h |-> Sheet.h]
        hole == SpillRects(sizes, band, safeTrimDayRegion(reg, 6)).center
    IN CASE pat.kind = "solid" -> << [rect |-> cell, c |-> pat.c], NoLayer >>
         [] pat.kind = "ring" -> << [rect |-> cell, c |-> pat.c], [rect |-> hole, c |-> WHITE] >>
         [] pat.kind = "leftHalf" ->
              << [rect |-> Rect(reg.x0, (reg.x0 + reg.x1) \div 2, band.yStart, band.yEnd),
                  c |-> pat.c], NoLayer >>
         [] pat.kind = "edge" ->
              << [rect |-> Rect(reg.x0, reg.x0 + 22, band.yStart, band.yEnd), c |-> pat.c],
                 NoLayer >>
         [] pat.kind = "patch" ->
              << [rect |-> cell, c |-> pat.c],
                 [rect |-> Rect(reg.x0, reg.x0 + ((reg.x1 - reg.x0) \div 3),
                                band.yStart, band.yEnd), c |-> WHITE] >>
         [] pat.kind = "mix" ->
              << [rect |-> cell, c |-> pat.c],
                 [rect |-> Rect(reg.x0, reg.x0 + ((reg.x1 - reg.x0) \div 3),
                                band.yStart, band.yEnd), c |-> PURPLE] >>

BlankSheet == [w |-> Sheet.w, h |-> Sheet.h, layers |-> <<NoLayer, NoLayer>>]

ImageSet ==
    {BlankSheet} \cup
    { [w |-> Sheet.w, h |-> Sheet.h, layers |-> PaintCell(1, 1, pat)] : pat \in PatternSet } \cup
    { [w |-> Sheet.w, h |-> Sheet.h,
       layers |-> PaintCell(5, MaxSlots, [kind |-> "solid", c |-> PURPLE])] }

FullNav(k) ==
    [dayRegions |-> [d \in WeekdaySet |-> SheetRegion(DayIndex(d))],
     slotBands |-> [i \in 1..k |-> SheetBand(i)],
     ticksForMap |-> [i \in 1..(k + 1) |-> SheetTick(i)],
     bgWhite |-> SheetBg,
     dividerXs |-> SheetDividerXs,
     anchorStartTime |-> "8:00 AM"]

\* every nav computeFrozenNavFromPre can return has the five regions; the
\* other navs are what a caller of the exported function may pass
NavSet ==
    { FullNav(k) : k \in 1..MaxSlots } \cup
    { [FullNav(MaxSlots) EXCEPT !.dayRegions =
           [d \in WeekdaySet \ {"Tuesday"} |-> SheetRegion(DayIndex(d))]],
      [FullNav(MaxSlots) EXCEPT !.bgWhite = DimBg],
      [FullNav(MaxSlots) EXCEPT !.slotBands = <<>>],
      [FullNav(MaxSlots) EXCEPT !.bgWhite = NullBg] }

----------------------------------------------------------------------------
(* Layer G: tick validation.  The median spacing dy can be a half-integer    *)
(* (mean of the two middle differences), so dy and the running expected row  *)
(* are kept doubled: dy2 = 2*dy, e2 = 2*expected.                            *)

NaN2 == 0 - 1

\* computeMedianDy: 2 * median of the positive consecutive differences, NaN2 if none
computeMedianDy(ticks) ==
    IF Len(ticks) < 2 THEN NaN2
    ELSE LET all == [i \in 1..(Len(ticks) - 1) |-> ticks[i + 1] - ticks[i]]
             diffs == SortSeq(SelectSeq(all, LAMBDA d : d > 0), LAMBDA x, y : x < y)
             n == Len(diffs)
             mid == n \div 2
         IN IF n = 0 THEN NaN2
            ELSE IF n % 2 = 1 THEN 2 * diffs[mid + 1]
            ELSE diffs[mid] + diffs[mid + 1]

\* nearestTickWithin accepting ticks within twice snapWin of expected
nearestTickWithin_WideWindow(rawTicks, e2, snapWin, startIdx) ==
    LET D2(i) == Abs(2 * rawTicks[i] - e2)
        ok == { i \in startIdx..Len(rawTicks) : D2(i) <= 4 * snapWin }
    IN IF ok = {} THEN 0
       ELSE CHOOSE i \in ok : \A j \in ok : D2(i) < D2(j) \/ (D2(i) = D2(j) /\ i <= j)

\* nearestTickWithin(rawTicks, expected, snapWin, startIdx): index of the first
\* closest tick at or after startIdx within snapWin of expected, 0 if none
nearestTickWithin(rawTicks, e2, snapWin, startIdx) ==
    LET D2(i) == Abs(2 * rawTicks[i] - e2)
        ok == { i \in startIdx..Len(rawTicks) : D2(i) <= 2 * snapWin }
    IN IF ok = {} THEN 0
       ELSE CHOOSE i \in ok : \A j \in ok : D2(i) < D2(j) \/ (D2(i) = D2(j) /\ i <= j)

\* the while loop of validateFromIndex: expected advances by dy whatever was hit
RECURSIVE ChainFrom(_, _, _, _, _, _)
ChainFrom(rawTicks, dy2, snapWin, e2, rawIdx, validated) ==
    LET hit == nearestTickWithin(rawTicks, e2 + dy2, snapWin, rawIdx)
    IN IF hit = 0 THEN validated
       ELSE ChainFrom(rawTicks, dy2, snapWin, e2 + dy2, hit + 1, Append(validated, rawTicks[hit]))

validateFromIndex(rawTicks, dy2, snapWin, startIndex) ==
    ChainFrom(rawTicks, dy2, snapWin, 2 * rawTicks[startIndex], startIndex + 1,
              <<rawTicks[startIndex]>>)

\* snapWin = clamp(Math.round(dy * 0.10), 4, 18)
SnapWinOf(dy2) == clamp((dy2 + 10) \div 20, 4, 18)

\* indices of the chain-start candidates: the leading ticks within the top 20% of
\* the tick range, at most candidateCount = 8 of them
ChainStarts(rawTicks) ==
    LET yMin == rawTicks[1]
        yMax == rawTicks[Len(rawTicks)]
        inTop(i) == 5 * (rawTicks[i] - yMin) <= yMax - yMin
        lead == { i \in 1..Len(rawTicks) : \A j \in 1..i : inTop(j) }
        firstN == { i \in lead : i <= 8 }
    IN IF firstN = {} THEN {1} ELSE firstN

\* the chain validateFromIndex builds from every candidate start
ChainsFrom(rawTicks, dy2, snapWin, starts) ==
    [i \in starts |-> validateFromIndex(rawTicks, dy2, snapWin, i)]

\* the first of the longest chains: a later chain replaces best only if longer
LongestChain(chains) ==
    chains[CHOOSE i \in DOMAIN chains :
             \A j \in DOMAIN chains : Len(chains[i]) > Len(chains[j])
                                       \/ (Len(chains[i]) = Len(chains[j]) /\ i <= j)]

\* the result for the longest chain, with minValidated = 5 instead of 6
ValidatedResult_Min5(outTicks, dy2, snapWin) ==
    [ok |-> Len(outTicks) >= 5, ticks |-> outTicks, dy2 |-> dy2, snapWin |-> snapWin,
     reason |-> IF Len(outTicks) >= 5 THEN "ok" ELSE "too few validated ticks"]

\* the result for the longest chain: ok = outTicks.length >= minValidated
ValidatedResult(outTicks, dy2, snapWin) ==
    [ok |-> Len(outTicks) >= 6, ticks |-> outTicks, dy2 |-> dy2, snapWin |-> snapWin,
     reason |-> IF Len(outTicks) >= 6 THEN "ok" ELSE "too few validated ticks"]

\* validateTicksFromFirst once dy is known
ValidateWithDy(rawTicks, dy2) ==
    IF dy2 = NaN2 \/ dy2 < 20 \/ dy2 > 180 THEN
        [ok |-> FALSE, ticks |-> rawTicks, dy2 |-> dy2, snapWin |-> 0, reason |-> "bad median dy"]
    ELSE
        ValidatedResult(
            LongestChain(ChainsFrom(rawTicks, dy2, SnapWinOf(dy2), ChainStarts(rawTicks))),
            dy2, SnapWinOf(dy2))

validateTicksFromFirst(rawTicks) ==
    IF Len(rawTicks) < 2 THEN
        [ok |-> FALSE, ticks |-> rawTicks, dy2 |-> NaN2, snapWin |-> 0,
         reason |-> "too few raw ticks"]
    ELSE ValidateWithDy(rawTicks, computeMedianDy(rawTicks))

----------------------------------------------------------------------------
(* Layers E..H: from the uploaded file to ticks, day regions and slot bands. *)
(* What the scans of the left lane and of the divider band find is carried   *)
(* by the file (scan): the raw ticks, the dividers, the number of grid lines *)
(* the ladder walk confirms and the half thickness of the grid lines.        *)

NullPre == [isPre |-> FALSE]
NullNav == [isNav |-> FALSE]
NotRun == [run |-> FALSE]

\* the lanes of pickBestTickLane, in thousandths of the width
LaneFracs ==
    << [x0Frac |-> 15, x1Frac |-> 55], [x0Frac |-> 30, x1Frac |-> 70],
       [x0Frac |-> 45, x1Frac |-> 85], [x0Frac |-> 60, x1Frac |-> 95],
       [x0Frac |-> 75, x1Frac |-> 110] >>

resetSession(reason) ==
    [ok |-> FALSE, ready |-> FALSE, reason |-> reason, missing |-> <<>>,
     personName |-> "", fileName |-> "", nav |-> NullNav, avail |-> NoAvail]

\* !nav[key]: the key is absent or null (an empty array or object is not)
Lacks(n, key) ==
    \/ key \notin DOMAIN n
    \/ key \in {"bgWhite", "bg"} /\ n[key] = NullBg

missingKeys(n, a) ==
    (IF n = NullNav THEN <<"nav">> ELSE <<>>) \o
    (IF a = NoAvail THEN <<"avail">> ELSE <<>>) \o
    (IF n = NullNav THEN <<>>
     ELSE (IF Lacks(n, "dayRegions") THEN <<"dayRegions">> ELSE <<>>) \o
          (IF Lacks(n, "slotBands") THEN <<"slotBands">> ELSE <<>>) \o
          (IF Lacks(n, "ticksForMap") THEN <<"ticksForMap">> ELSE <<>>) \o
          (IF Lacks(n, "bgWhite") /\ Lacks(n, "bg") THEN <<"bg/bgWhite">> ELSE <<>>))

\* the session publishSession builds and stores; reason is "missing: " and the joined list
publishSession_KeepsNav(a) ==
    LET missing == missingKeys(a.nav, a.avail)
        ok == missing = <<>>
    IN [ok |-> ok, ready |-> ok, reason |-> IF ok THEN "" ELSE "missing: ", missing |-> missing,
        personName |-> a.personName, fileName |-> a.fileName,
        nav |-> a.nav, avail |-> IF ok THEN a.avail ELSE NoAvail]

publishSession(a) ==
    LET missing == missingKeys(a.nav, a.avail)
        ok == missing = <<>>
    IN [ok |-> ok, ready |-> ok, reason |-> IF ok THEN "" ELSE "missing: ", missing |-> missing,
        personName |-> a.personName, fileName |-> a.fileName,
        nav |-> IF ok THEN a.nav ELSE NullNav, avail |-> IF ok THEN a.avail ELSE NoAvail]

buildPrecomputeFromCanvas(f, now) ==
    IF f.w = 0 \/ f.h = 0 THEN
        [ok |-> FALSE, reason |-> "canvas has no pixels", pre |-> NullPre]
    ELSE
        [ok |-> TRUE, reason |-> "",
         pre |-> [isPre |-> TRUE, w |-> f.w, h |-> f.h, layers |-> f.layers,
                  vlines |-> f.vlines, scan |-> f.scan, meta |-> [ts |-> now]]]

\* the result and the value LAST_PRE / __LAST_PRE__ are left with
buildAndPublishPrecompute(f, now) ==
    LET res == buildPrecomputeFromCanvas(f, now)
    IN [ok |-> res.ok, reason |-> res.reason, pre |-> res.pre, LAST_PRE |-> res.pre]

pickBestTickLane(p) == LaneFracs[p.scan.lane]

detectTimeTicksFromLeftLane(p, lane) == p.scan.rawTicks

\* Day dividers.  Besides its two painted layers an image carries its printed
\* vertical lines, vlines: rectangles of one colour that is not near-white,
\* drawn over the layers and disjoint from each other.
DARK_LUMA_THRESH == 215

\* darkMask: luma = 0.2126*r + 0.7152*g + 0.0722*b <= darkLumaThresh
isDark(c) == 2126 * c.r + 7152 * c.g + 722 * c.b <= 10000 * DARK_LUMA_THRESH

DarkCount(img, R) ==
    LET v == VisArea(img, R)
    IN (IF isDark(LayerColor(img, 1)) THEN v[1] ELSE 0)
     + (IF isDark(LayerColor(img, 2)) THEN v[2] ELSE 0)
     + (IF isDark(LayerColor(img, 3)) THEN v[3] ELSE 0)

\* pixels of R that are not near-white: those of the layers, and the near-white
\* ones a line covers
RECURSIVE NonWhiteUnderLines(_, _, _)
NonWhiteUnderLines(img, R, k) ==
    IF k = 0 THEN 0
    ELSE (IF Area(Inter(R, img.vlines[k].rect)) = 0 THEN 0
          ELSE WhiteCount(img, Inter(R, img.vlines[k].rect)))
         + NonWhiteUnderLines(img, R, k - 1)

RECURSIVE DarkUnderLines(_, _, _)
DarkUnderLines(img, R, k) ==
    IF k = 0 THEN 0
    ELSE LET X == Inter(R, img.vlines[k].rect)
         IN (IF Area(X) = 0 THEN 0
             ELSE IF isDark(img.vlines[k].c) THEN Area(X) - DarkCount(img, X)
             ELSE 0 - DarkCount(img, X))
            + DarkUnderLines(img, R, k - 1)

pickDayBandY(h, vTicks) ==
    IF Len(vTicks) < 6 THEN clamp((h * 35) \div 100, 0, h - 1)
    ELSE LET i == clamp(8, 2, Len(vTicks) - 3)
         IN clamp((vTicks[i + 1] + vTicks[i + 2]) \div 2, 0, h - 1)

\* the stripe of stripeW = 5 columns around x, bandH = 160 rows around yCenter,
\* with its counts (nonWhiteFrac = nonWhite / area, darkFrac = dark / area)
StripeRect(img, x, yCenter) ==
    LET x0 == clamp(x - 3, 0, img.w - 1)
        y0 == clamp(yCenter - 80, 0, img.h - 1)
    IN Rect(x0, clamp(x0 + 5, x0 + 1, img.w), y0, clamp(y0 + 160, y0 + 1, img.h))

StripeCounts(img, x, R) ==
    [x |-> x, area |-> Area(R),
     nonWhite |-> (Area(R) - WhiteCount(img, R)) + NonWhiteUnderLines(img, R, Len(img.vlines)),
     dark |-> DarkCount(img, R) + DarkUnderLines(img, R, Len(img.vlines))]

scoreVLineAtX(img, x, yCenter) == StripeCounts(img, x, StripeRect(img, x, yCenter))

\* nonWhiteFrac >= pct / 100
FracAtLeast(s, pct) == 100 * s.nonWhite >= pct * s.area

\* score = nonWhiteFrac + darkFrac * 0.25, compared as (4*nonWhite + dark) / area
ScoreGT(a, b) == (4 * a.nonWhite + a.dark) * b.area > (4 * b.nonWhite + b.dark) * a.area

NoDivider == [x |-> 0 - 1]

\* the stripes of the search window, dx = -searchPx..searchPx in this order,
\* that lie inside the image and reach minNonWhiteFrac = 0.18
WindowStripes(img, yCenter, xGuess) ==
    LET all == [k \in 1..81 |-> scoreVLineAtX(img, xGuess + k - 41, yCenter)]
    IN SelectSeq(SubSeq(all, 1, 81),
                 LAMBDA s : s.x > 0 /\ s.x < img.w /\ FracAtLeast(s, 18))

\* the first stripe of the window no other stripe beats.  xGuess is
\* Math.floor of the guess, dx being an integer.
BestStripe(cand) ==
    IF Len(cand) = 0 THEN NoDivider
    ELSE cand[CHOOSE k \in 1..Len(cand) :
                /\ \A j \in 1..Len(cand) : ~ScoreGT(cand[j], cand[k])
                /\ \A j \in 1..(k - 1) : ScoreGT(cand[k], cand[j])]

findBestDividerNearX(img, yCenter, xGuess) == BestStripe(WindowStripes(img, yCenter, xGuess))

\* the first stripe reaching 0.22 on the walk from x = from in steps of step
RECURSIVE FirstStripe(_, _, _, _, _)
FirstStripe(img, yCenter, from, step, count) ==
    IF count = 0 THEN NoDivider
    ELSE IF FracAtLeast(scoreVLineAtX(img, from, yCenter), 22)
      THEN scoreVLineAtX(img, from, yCenter)
    ELSE FirstStripe(img, yCenter, from + step, step, count - 1)

MissingDivider ==
    << "missing divider 0", "missing divider 1", "missing divider 2",
       "missing divider 3", "missing divider 4", "missing divider 5" >>

\* the six walks of findBestDividerNearX, one per expected divider
DividerWalk(img, yCenter, left, right) ==
    SubSeq([i \in 1..6 |->
              findBestDividerNearX(img, yCenter,
                                   left.x + ((right.x - left.x) * (i - 1)) \div 5)], 1, 6)

DividerResult_MissingIgnored(divs) ==
    [ok |-> TRUE, xs |-> [i \in 1..6 |-> divs[i].x], reason |-> "ok"]

DividerResult(divs) ==
    IF \E i \in 1..6 : divs[i] = NoDivider
      THEN [ok |-> FALSE, xs |-> <<>>,
            reason |-> MissingDivider[CHOOSE i \in 1..6 :
                          divs[i] = NoDivider /\ \A j \in 1..(i - 1) : divs[j] # NoDivider]]
      ELSE [ok |-> TRUE, xs |-> [i \in 1..6 |-> divs[i].x], reason |-> "ok"]

\* findDayDividers over the pixels of an image
DividersBetween(img, yCenter, left, right) ==
    IF left = NoDivider
      THEN [ok |-> FALSE, xs |-> <<>>, reason |-> "could not find leftmost divider"]
    ELSE IF right = NoDivider \/ right.x <= left.x + 50
      THEN [ok |-> FALSE, xs |-> <<>>, reason |-> "could not find rightmost divider"]
    ELSE DividerResult(DividerWalk(img, yCenter, left, right))

\* the walks from xStart = floor(w * 0.10) up and from xEnd = floor(w * 0.985) down
LeftmostStripe(img, yCenter) ==
    FirstStripe(img, yCenter, (img.w * 10) \div 100, 2,
                ((img.w * 985) \div 1000 - (img.w * 10) \div 100) \div 2 + 1)

RightmostStripe(img, yCenter) ==
    FirstStripe(img, yCenter, (img.w * 985) \div 1000, 0 - 2,
                ((img.w * 985) \div 1000 - (img.w * 10) \div 100) \div 2 + 1)

DividersAtBand(img, yCenter) ==
    DividersBetween(img, yCenter, LeftmostStripe(img, yCenter), RightmostStripe(img, yCenter))

\* findDayDividers over the pixels of an image
DayDividersOf(img, vTicks) == DividersAtBand(img, pickDayBandY(img.h, vTicks))

\* a precompute may carry the outcome of the walk over the pixels of its image,
\* done when the image was enumerated; otherwise the walk is done now
Unscanned == [scanned |-> FALSE]

findDayDividers(p, vTicks) ==
    IF p.scan.div = Unscanned THEN DayDividersOf(p, vTicks) ELSE p.scan.div

freezeDayRegionsFromDividers(divResult) ==
    IF ~divResult.ok THEN [ok |-> FALSE, reason |-> "no dividers"]
    ELSE LET xs == SortSeq(divResult.xs, LAMBDA a, b : a < b)
         IN IF Len(xs) # 6 THEN [ok |-> FALSE, reason |-> "bad divider count"]
            ELSE [ok |-> TRUE, reason |-> "ok", xs |-> xs,
                  regions |-> [d \in WeekdaySet |->
                                 [x0 |-> xs[DayIndex(d)], x1 |-> xs[DayIndex(d) + 1]]]]

\* The global ladder.  What the pixels show around the k-th expected row is
\* the evidence p.scan.steps[k] (p.scan.tail for every later row):
\*   h     where the strongest dark 3-row band of the snap window lies
\*         ("lo", "mid", "hi": first row, expected row, last row), "none" when
\*         no band reaches minFrac = 0.14
\*   vHits how many divider stripes show structure at the expected row
\*   row   whether at least 3 day interiors look like a table row
\*   lane  where the best 14-row band of the tick lane lies in the terminal
\*         window, "none" when it stays under minNonWhiteFrac = 0.05
\* Rows are kept doubled (e2 = 2 * expected) since dy may end in .5.
maxSteps == 120
StableRun == 5

NoEvidence == [h |-> "none", vHits |-> 0, row |-> FALSE, lane |-> "none"]

EvidenceAt(p, k) == IF k <= Len(p.scan.steps) THEN p.scan.steps[k] ELSE p.scan.tail

\* the row a window [lo, hi] yields for the place the evidence names
PlaceIn(place, lo, hi, e2) ==
    CASE place = "lo" -> lo
      [] place = "hi" -> Max(lo, hi)
      [] OTHER -> clamp(e2 \div 2, lo, Max(lo, hi))

\* yLo, yHi = clamp(floor(expectedY -/+ snapWin), 0, h - bandH), bandH = 3
findBestHLinePeak(p, e2, snapWin, ev) ==
    IF ev.h = "none" THEN [ok |-> FALSE, reason |-> "no strong line peak"]
    ELSE [ok |-> TRUE,
          y |-> PlaceIn(ev.h, clamp((e2 - 2 * snapWin) \div 2, 0, p.h - 3),
                        clamp((e2 + 2 * snapWin) \div 2, 0, p.h - 3), e2)]

\* the divider cue as it answers when no dividerXs are passed
hasVerticalDayStructureAtY_NoDividers(p, e2, dividerXs, requireCount, ev) ==
    [ok |-> FALSE, hits |-> 0]

\* ok = hits >= requireCount over the stripes around the dividerXs
hasVerticalDayStructureAtY(p, e2, dividerXs, requireCount, ev) ==
    IF Len(dividerXs) = 0 THEN [ok |-> FALSE, hits |-> 0]
    ELSE [ok |-> ev.vHits >= requireCount, hits |-> ev.vHits]

\* the row gate passing at every row
hasRowLikeStructure_AlwaysOk(p, e2, ev) == [ok |-> TRUE]

\* ok = okCount >= requireDaysOk (3) over the trimmed interiors of the days
hasRowLikeStructure(p, e2, ev) == [ok |-> ev.row]

\* y = y0 + floor(bandH / 2) for the band [y0, y0 + 14) that scores best
\* among y0 = clamp(floor(expectedY -/+ snapWin), 0, h - 14)
findBestLaneMarkNearY_TopOfBand(p, e2, snapWin, ev) ==
    IF ev.lane = "none" THEN [found |-> FALSE]
    ELSE [found |-> TRUE,
          y |-> PlaceIn(ev.lane, clamp((e2 - 2 * snapWin) \div 2, 0, p.h - 14),
                        clamp((e2 + 2 * snapWin) \div 2, 0, p.h - 14), e2 - 14)]

findBestLaneMarkNearY(p, e2, snapWin, ev) ==
    IF ev.lane = "none" THEN [found |-> FALSE]
    ELSE [found |-> TRUE,
          y |-> PlaceIn(ev.lane, clamp((e2 - 2 * snapWin) \div 2, 0, p.h - 14),
                        clamp((e2 + 2 * snapWin) \div 2, 0, p.h - 14), e2 - 14) + 7]

\* Math.round of a doubled non-negative value
Round2(e2) == (e2 + 1) \div 2

\* what the ladder returns; besides the fields of the source: the passes of
\* the loop, for every tick appended the doubled expected row and the kind of
\* accept (trace), and prev and allowedGapUsed as the loop left them (loc)
LadderResult(c, out, trace, steps, stopReason, loc) ==
    [ok |-> Len(out) >= 2, ticks |-> out, dy2 |-> c.dy2, snapWin |-> c.snapWin,
     stopReason |-> stopReason, steps |-> steps, trace |-> trace,
     prev2 |-> loc[1], allowedGapUsed |-> loc[2]]

\* the terminal tick: snapWinTerm = clamp(round(dy * 0.7), 10, 28)
TerminalTick(c, out, trace, steps, loc, e2, snapWinTerm, laneBest) ==
    IF laneBest.found /\ 2 * laneBest.y - e2 <= 2 * snapWinTerm
                      /\ e2 - 2 * laneBest.y <= 2 * snapWinTerm
      THEN LadderResult(c, Append(out, laneBest.y),
                        Append(trace, [e2 |-> e2, how |-> "lane"]), steps,
                        "no strong line peak", loc)
      ELSE LadderResult(c, out, trace, steps, "no strong line peak", loc)

WithinSteps_NoCap(steps) == TRUE

WithinSteps(steps) == steps < maxSteps

RECURSIVE LadderLoop(_, _, _, _, _, _, _, _)
RECURSIVE LadderStep(_, _, _, _, _, _, _, _, _, _)

\* one pass of the while loop, steps already counted, for the expected row e2
LadderStep(p, c, out, trace, prev2, steps, consecutiveVGood, allowedGapUsed, e2, ev) ==
    IF findBestHLinePeak(p, e2, c.snapWin, ev).ok THEN
        LadderLoop(p, c, Append(out, findBestHLinePeak(p, e2, c.snapWin, ev).y),
                   Append(trace, [e2 |-> e2, how |-> "peak"]),
                   2 * findBestHLinePeak(p, e2, c.snapWin, ev).y, steps, 0, 0)
    ELSE IF hasVerticalDayStructureAtY(p, e2, c.dividerXs, 3, ev).ok THEN
        IF ~hasRowLikeStructure(p, e2, ev).ok
          THEN LadderResult(c, out, trace, steps, "left table (row band failed)",
                            <<prev2, allowedGapUsed>>)
          ELSE LadderLoop(p, c, Append(out, Round2(e2)),
                          Append(trace, [e2 |-> e2, how |-> "vertical"]),
                          e2, steps, consecutiveVGood + 1, 0)
    ELSE IF consecutiveVGood >= StableRun
            /\ hasVerticalDayStructureAtY(p, e2, c.dividerXs, 2, ev).ok THEN
        IF ~hasRowLikeStructure(p, e2, ev).ok
          THEN LadderResult(c, out, trace, steps, "left table (row band failed on retry)",
                            <<prev2, allowedGapUsed>>)
          ELSE LadderLoop(p, c, Append(out, Round2(e2)),
                          Append(trace, [e2 |-> e2, how |-> "retry"]), e2, steps, 1, 0)
    ELSE IF consecutiveVGood >= StableRun /\ allowedGapUsed = 0 THEN
        LadderLoop(p, c, out, trace, prev2, steps, consecutiveVGood, 1)
    ELSE TerminalTick(c, out, trace, steps, <<prev2, allowedGapUsed>>, e2, clamp((35 * c.dy2 + 50) \div 100, 10, 28),
                      findBestLaneMarkNearY(p, e2, clamp((35 * c.dy2 + 50) \div 100, 10, 28), ev))

\* while (steps < maxSteps) { steps++; expected = prev + dy; ... }
LadderLoop(p, c, out, trace, prev2, steps, consecutiveVGood, allowedGapUsed) ==
    IF ~WithinSteps(steps)
      THEN LadderResult(c, out, trace, steps, "unknown", <<prev2, allowedGapUsed>>)
    ELSE IF prev2 + c.dy2 >= 2 * (p.h - 2)
      THEN LadderResult(c, out, trace, steps + 1, "hit image bottom", <<prev2, allowedGapUsed>>)
    ELSE LadderStep(p, c, out, trace, prev2, steps + 1, consecutiveVGood, allowedGapUsed,
                    prev2 + c.dy2, EvidenceAt(p, Len(out)))

\* snapWin = clamp(round(dy * 0.12), 4, 18); the ladder starts from vTicks[0]
buildGlobalTickLadder(p, vTicks, dy2, dividerXs) ==
    IF Len(vTicks) < 2
      THEN [ok |-> FALSE, ticks |-> vTicks, dy2 |-> dy2, snapWin |-> 0,
            stopReason |-> "missing inputs", steps |-> 0, trace |-> <<>>,
            prev2 |-> 0, allowedGapUsed |-> 0]
      ELSE LadderLoop(p, [dy2 |-> dy2, snapWin |-> clamp((6 * dy2 + 50) \div 100, 4, 18),
                          dividerXs |-> dividerXs],
                      <<vTicks[1]>>, <<>>, 2 * vTicks[1], 0, 0, 0)

\* the dark rows around a grid line: lineHalf rows above and below its centre
estimateLineBandAtTick(p, yCenter) ==
    LET cy == clamp(yCenter, 0, p.h - 1)
    IN [y0 |-> Max(0, cy - p.scan.lineHalf),
        y1 |-> Min(p.h - 1, cy + p.scan.lineHalf) + 1,
        cy |-> cy]

\* buildSlotBandsFromTicks pushing every slot, whatever its height
buildSlotBandsFromTicks_NoMinHeight(p, ticks) ==
    IF Len(ticks) < 2 THEN <<>>
    ELSE LET lineBands == [i \in 1..Len(ticks) |-> estimateLineBandAtTick(p, ticks[i])]
             slot(i) == [yStart |-> clamp(lineBands[i].y1, 0, p.h - 1),
                         yEnd |-> clamp(lineBands[i + 1].y0, 1, p.h),
                         topTick |-> lineBands[i].cy,
                         botTick |-> lineBands[i + 1].cy]
         IN [i \in 1..(Len(ticks) - 1) |-> slot(i)]

buildSlotBandsFromTicks(p, ticks) ==
    IF Len(ticks) < 2 THEN <<>>
    ELSE LET lineBands == [i \in 1..Len(ticks) |-> estimateLineBandAtTick(p, ticks[i])]
             slot(i) == [yStart |-> clamp(lineBands[i].y1, 0, p.h - 1),
                         yEnd |-> clamp(lineBands[i + 1].y0, 1, p.h),
                         topTick |-> lineBands[i].cy,
                         botTick |-> lineBands[i + 1].cy]
             all == [i \in 1..(Len(ticks) - 1) |-> slot(i)]
         IN SelectSeq(all, LAMBDA s : s.yEnd - s.yStart >= 8)

----------------------------------------------------------------------------
(* Layer I: background calibration.  White fractions are kept as exact       *)
(* <<white pixels, area>> pairs.  The code compares the floating-point mean  *)
(* of the chosen fractions with 0.70: where the exact mean differs from 0.70 *)
(* the comparison is the exact one; where it equals 0.70 the rounding of the *)
(* floating-point sum decides, so both outcomes are possible.                *)

SamplesPerSlot == 60

RECURSIVE GCD(_, _)
GCD(a, b) == IF b = 0 THEN a ELSE GCD(b, a % b)

FracGT(a, b) == a[1] * b[2] > b[1] * a[2]

AddFrac(a, b) ==
    LET n == a[1] * (b[2] \div GCD(a[2], b[2])) + b[1] * (a[2] \div GCD(a[2], b[2]))
        d == (a[2] \div GCD(a[2], b[2])) * b[2]
        g == GCD(n, d)
    IN <<n \div g, d \div g>>

\* rectWhiteFrac(pre, x0, y0, x1, y1) as <<whiteCount, area>>
rectWhiteFrac(p, R) == IF Area(R) <= 0 THEN <<0, 1>> ELSE <<WhiteCount(p, R), Area(R)>>

\* the inset rectangle of a (day region, slot band) cell: insetX = 8, insetY = 2
CalRect(p, region, s) ==
    LET x0 == clamp(region.x0 + 8, 0, p.w - 1)
        x1 == clamp(region.x1 - 8, x0 + 1, p.w)
        y0 == clamp(s.yStart + 2, 0, p.h - 1)
        y1 == clamp(s.yEnd - 2, y0 + 1, p.h)
    IN Rect(x0, x1, y0, y1)

Candidate(p, region, s) ==
    [rect |-> CalRect(p, region, s), whiteFrac |-> rectWhiteFrac(p, CalRect(p, region, s))]

RECURSIVE SumFracs(_, _)
SumFracs(chosen, k) ==
    IF k = 0 THEN <<0, 1>> ELSE AddFrac(SumFracs(chosen, k - 1), chosen[k].whiteFrac)

\* candidates.sort((a, b) => b.whiteFrac - a.whiteFrac).slice(0, 1): one
\* candidate is chosen instead of CAL_PICK_TOP
pickWhitest_Top1(candidates) ==
    LET n == Len(candidates)
        wf(i) == candidates[i].whiteFrac
        order == SortSeq([i \in 1..n |-> i],
                         LAMBDA i, j : FracGT(wf(i), wf(j)) \/ (~FracGT(wf(j), wf(i)) /\ i < j))
    IN [k \in 1..Min(n, 1) |-> candidates[order[k]]]

\* candidates.sort((a, b) => b.whiteFrac - a.whiteFrac).slice(0, Math.max(1, pickTop));
\* the sort is stable, so equally white candidates keep their order
pickWhitest(candidates) ==
    LET n == Len(candidates)
        wf(i) == candidates[i].whiteFrac
        order == SortSeq([i \in 1..n |-> i],
                         LAMBDA i, j : FracGT(wf(i), wf(j)) \/ (~FracGT(wf(j), wf(i)) /\ i < j))
    IN [k \in 1..Min(n, Max(1, CAL_PICK_TOP)) |-> candidates[order[k]]]

\* the exact mean white fraction of the chosen candidates against 0.70
MeanVs70(chosen) ==
    LET sum == SumFracs(chosen, Len(chosen))
        lhs == 10 * sum[1]
        rhs == 7 * Len(chosen) * sum[2]
    IN IF lhs < rhs THEN "below" ELSE IF lhs > rhs THEN "above" ELSE "equal"

\* the sample counts per layer that are enumerated for one chosen candidate
CalCounts ==
    LET half == SamplesPerSlot \div 2
    IN { m \in {0, SamplesPerSlot} \cup Near(half + 1) \cup { SamplesPerSlot - k : k \in Near(half + 1) } :
           m >= 0 /\ m <= SamplesPerSlot }

CalDrawSet(p, R) ==
    LET v == VisArea(p, R)
        C(k) == IF v[k] = 0 THEN {0} ELSE CalCounts
    IN { t \in { <<SamplesPerSlot - n2 - n3, n2, n3>> : n2 \in C(2), n3 \in C(3) } :
            t[1] >= 0 /\ (v[1] = 0 => t[1] = 0) }

\* the totals per layer of the samples drawn over all chosen candidates
RECURSIVE DrawTotals(_, _, _)
DrawTotals(p, chosen, k) ==
    IF k = 0 THEN { NoDraw }
    ELSE { <<t[1] + d[1], t[2] + d[2], t[3] + d[3]>> :
             t \in DrawTotals(p, chosen, k - 1), d \in CalDrawSet(p, chosen[k].rect) }

\* arr.sort((a, b) => a - b)[idx] for the array holding vals[k] cnt[k] times
SortedAt(vals, cnt, idx) ==
    LET below(v) == (IF vals[1] < v THEN cnt[1] ELSE 0) + (IF vals[2] < v THEN cnt[2] ELSE 0)
                    + (IF vals[3] < v THEN cnt[3] ELSE 0)
        upto(v) == (IF vals[1] <= v THEN cnt[1] ELSE 0) + (IF vals[2] <= v THEN cnt[2] ELSE 0)
                   + (IF vals[3] <= v THEN cnt[3] ELSE 0)
    IN CHOOSE v \in { vals[k] : k \in { j \in 1..3 : cnt[j] > 0 } } :
         below(v) <= idx /\ idx < upto(v)

ChannelOf(p, ch) == [k \in 1..3 |-> LayerColor(p, k)[ch]]

\* rs[mid], gs[mid], bs[mid] with mid = rs.length >> 1
MedianRGB(p, t) ==
    LET mid == (t[1] + t[2] + t[3]) \div 2
    IN [ch \in {"r", "g", "b"} |-> SortedAt(ChannelOf(p, ch), t, mid)]

\* mad(arr, m): the middle of the sorted absolute deviations from m
Mad(p, t, ch, m) ==
    SortedAt([k \in 1..3 |-> Abs(ChannelOf(p, ch)[k] - m)], t, (t[1] + t[2] + t[3]) \div 2)

\* whiteCount / total rounded to three decimals, in thousandths
WhiteShare(p, t) ==
    LET total == t[1] + t[2] + t[3]
        whiteCount == (IF isNearWhite(LayerColor(p, 1)) THEN t[1] ELSE 0)
                    + (IF isNearWhite(LayerColor(p, 2)) THEN t[2] ELSE 0)
                    + (IF isNearWhite(LayerColor(p, 3)) THEN t[3] ELSE 0)
    IN (2000 * whiteCount + total) \div (2 * total)

\* the bg of calibrateFridayBackground for the samples t
FridayBg(p, t) ==
    LET med == MedianRGB(p, t)
        spread == Max(Mad(p, t, "r", med["r"]), Max(Mad(p, t, "g", med["g"]), Mad(p, t, "b", med["b"])))
    IN [r |-> med["r"], g |-> med["g"], b |-> med["b"],
        tol |-> clamp(BG_TOL_BASE + ((5 * spread + 1) \div 2), BG_TOL_BASE, BG_TOL_MAX),
        samples |-> t[1] + t[2] + t[3],
        whiteFrac |-> WhiteShare(p, t)]

\* the bg of calibrateGlobalBackground for the samples t
GlobalBg(p, t) ==
    LET med == MedianRGB(p, t)
    IN [r |-> med["r"], g |-> med["g"], b |-> med["b"],
        tol |-> clamp(BG_TOL_BASE + 10, BG_TOL_BASE, BG_TOL_MAX),
        samples |-> t[1] + t[2] + t[3],
        whiteFrac |-> WhiteShare(p, t)]

\* the possible return values of calibrateFridayBackground
calibrateFridayBackground(p, dayRegions, slotBands) ==
    IF "Friday" \notin DOMAIN dayRegions \/ Len(slotBands) < 4 THEN
        { [ok |-> FALSE, reason |-> "missing inputs"] }
    ELSE
        LET n == Len(slotBands)
            first == Max(1, n - 7)
            bottom == SubSeq(slotBands, first, n)
            candidates == SubSeq([k \in 1..Len(bottom) |->
                                    Candidate(p, dayRegions["Friday"], bottom[k])], 1, Len(bottom))
            chosen == pickWhitest(candidates)
            cmp == MeanVs70(chosen)
            low == { [ok |-> FALSE, reason |-> "friday too busy/colored (low whiteness)"] }
            sampled == IF SamplesPerSlot * Len(chosen) < 80
                         THEN { [ok |-> FALSE, reason |-> "too few samples"] }
                         ELSE { [ok |-> TRUE, bg |-> FridayBg(p, t)] :
                                  t \in DrawTotals(p, chosen, Len(chosen)) }
        IN IF cmp = "below" THEN low
           ELSE IF cmp = "above" THEN sampled
           ELSE low \cup sampled

\* all (day, slot) cells in the order of the two loops
GlobalCandidates(p, dayRegions, slotBands) ==
    LET n == Len(slotBands)
        days == SelectSeq(WEEKDAYS, LAMBDA d : d \in DOMAIN dayRegions)
        all == [k \in 1..(Len(days) * n) |->
                  Candidate(p, dayRegions[days[((k - 1) \div n) + 1]], slotBands[((k - 1) % n) + 1])]
    IN SubSeq(all, 1, Len(days) * n)

\* the possible return values of calibrateGlobalBackground
calibrateGlobalBackground(p, dayRegions, slotBands) ==
    LET chosen == pickWhitest(GlobalCandidates(p, dayRegions, slotBands))
        cmp == MeanVs70(chosen)
        low == { [ok |-> FALSE, reason |-> "global fallback too colored"] }
        sampled == { [ok |-> TRUE, bg |-> GlobalBg(p, t)] :
                       t \in DrawTotals(p, chosen, Len(chosen)) }
    IN IF cmp = "below" THEN low
       ELSE IF cmp = "above" THEN sampled
       ELSE low \cup sampled

\* step 7 of computeFrozenNavFromPre with the global strategy run in every
\* case and its result preferred over Friday's
calibrateBackground_GlobalWins(p, dayRegions, slotBands) ==
    { [bgWhite |-> IF calG.ok THEN calG.bg ELSE IF calF.ok THEN calF.bg ELSE NullBg,
       calF |-> calF, calG |-> calG] :
        calF \in calibrateFridayBackground(p, dayRegions, slotBands),
        calG \in calibrateGlobalBackground(p, dayRegions, slotBands) }

\* step 7 of computeFrozenNavFromPre: Friday first, then the global fallback
calibrateBackground(p, dayRegions, slotBands) ==
    UNION { IF calF.ok
              THEN { [bgWhite |-> calF.bg, calF |-> calF, calG |-> NotRun] }
              ELSE { [bgWhite |-> IF calG.ok THEN calG.bg ELSE NullBg,
                      calF |-> calF, calG |-> calG] :
                       calG \in calibrateGlobalBackground(p, dayRegions, slotBands) } :
            calF \in calibrateFridayBackground(p, dayRegions, slotBands) }

----------------------------------------------------------------------------
(* Layer I.3: the nav builder and its publication *)

NoLog ==
    [raw |-> <<>>, v |-> NotRun, divRes |-> NotRun, fr |-> NotRun, g |-> NotRun,
     slots |-> NotRun, calF |-> NotRun, calG |-> NotRun, bail |-> "", reason |-> ""]

\* a return of null: the stage that bailed out and the reason string, if any,
\* that this stage had put in its own result
Bail(lane, log, stage, reason) ==
    [nav |-> NullNav, lane |-> lane, log |-> [log EXCEPT !.bail = stage, !.reason = reason]]

\* the possible outcomes of computeFrozenNavFromPre(pre), from what its stages
\* returned: the returned nav, the value stored in window.__TICK_LANE__ and
\* the log of the stages
\* xs.length === 6 ? xs : xs.slice(1, 7)
NormalizedDividers(divRes) ==
    IF Len(divRes.xs) = 6 THEN divRes
    ELSE [divRes EXCEPT !.xs = SubSeq(divRes.xs, 2, Min(7, Len(divRes.xs)))]

NavFromStages(p, lane, rawTicks, v, divRes, fr, g) ==
    LET tickLane == [x0 |-> (p.w * lane.x0Frac) \div 1000, x1 |-> (p.w * lane.x1Frac) \div 1000,
                     x0Frac |-> lane.x0Frac, x1Frac |-> lane.x1Frac]
        slotBands == buildSlotBandsFromTicks(p, g.ticks)
        log1 == [NoLog EXCEPT !.raw = rawTicks]
        log2 == [log1 EXCEPT !.v = v]
        log3 == [log2 EXCEPT !.divRes = divRes]
        log4 == [log3 EXCEPT !.fr = fr]
        log5 == [log4 EXCEPT !.g = g]
        log6 == [log5 EXCEPT !.slots = slotBands]
    IN IF Len(rawTicks) < 2 THEN { Bail(tickLane, log1, "rawTicks", "") }
       ELSE IF ~v.ok \/ Len(v.ticks) < 2 THEN
           { Bail(tickLane, log2, "validateTicksFromFirst", v.reason) }
       ELSE IF ~divRes.ok \/ Len(divRes.xs) < 6 THEN
           { Bail(tickLane, log3, "findDayDividers", divRes.reason) }
       ELSE IF ~fr.ok THEN { Bail(tickLane, log4, "freezeDayRegionsFromDividers", fr.reason) }
       ELSE IF ~g.ok \/ Len(g.ticks) < 2 THEN { Bail(tickLane, log5, "buildGlobalTickLadder", "") }
       ELSE IF Len(slotBands) < 1 THEN { Bail(tickLane, log6, "buildSlotBandsFromTicks", "") }
       ELSE { IF c.bgWhite = NullBg
                THEN Bail(tickLane, [log6 EXCEPT !.calF = c.calF, !.calG = c.calG],
                          "bgWhite", c.calG.reason)
                ELSE [nav |-> [isNav |-> TRUE,
                               dayRegions |-> fr.regions,
                               slotBands |-> slotBands,
                               ticksForMap |-> g.ticks,
                               bgWhite |-> c.bgWhite,
                               anchorStartTime |-> "8:00 AM",
                               preMeta |-> [w |-> p.w, h |-> p.h, ts |-> p.meta.ts],
                               laneMeta |-> lane,
                               dividerXs |-> fr.xs],
                      lane |-> tickLane,
                      log |-> [log6 EXCEPT !.calF = c.calF, !.calG = c.calG]] :
              c \in calibrateBackground(p, fr.regions, slotBands) }

\* the stages in the order they run, each handed what the earlier ones returned
NavFromRegions(p, lane, rawTicks, v, divRes, fr) ==
    NavFromStages(p, lane, rawTicks, v, divRes, fr,
                  buildGlobalTickLadder(p, v.ticks, v.dy2, IF fr.ok THEN fr.xs ELSE <<>>))

NavFromDividers(p, lane, rawTicks, v, divRes) ==
    NavFromRegions(p, lane, rawTicks, v, divRes,
                   freezeDayRegionsFromDividers(NormalizedDividers(divRes)))

NavFromValidated(p, lane, rawTicks, v) ==
    NavFromDividers(p, lane, rawTicks, v, findDayDividers(p, v.ticks))

NavFromTicks(p, lane, rawTicks) ==
    NavFromValidated(p, lane, rawTicks, validateTicksFromFirst(rawTicks))

NavFromLane(p, lane) == NavFromTicks(p, lane, detectTimeTicksFromLeftLane(p, lane))

computeFrozenNavFromPre(p) == NavFromLane(p, pickBestTickLane(p))

\* buildAndPublishNav(pre) for the nav the builder returned: its return value
\* and the value LAST_NAV / __LAST_NAV__ are left with
buildAndPublishNav(p, built, lastNav) ==
    IF p = NullPre THEN
        [res |-> [ok |-> FALSE, nav |-> NullNav,
                  reason |-> "Nav build failed: pre is null/undefined (LAST_PRE never published?)"],
         LAST_NAV |-> lastNav]
    ELSE IF built = NullNav THEN
        [res |-> [ok |-> FALSE, nav |-> NullNav, reason |-> "Nav builder returned null/undefined"],
         LAST_NAV |-> lastNav]
    ELSE
        [res |-> [ok |-> TRUE, nav |-> built, reason |-> ""], LAST_NAV |-> built]

pickNavCandidate(sess, lastNav) == IF sess.nav # NullNav THEN sess.nav ELSE lastNav

snapshotNavState(sess, lastNav) ==
    LET n == pickNavCandidate(sess, lastNav)
    IN IF n = NullNav
         THEN [ok |-> FALSE, nav |-> NullNav,
               reason |-> "No nav candidate found (nav was never produced)."]
         ELSE [ok |-> TRUE, nav |-> n, reason |-> ""]

----------------------------------------------------------------------------
(* The files that are enumerated *)

\* what the divider walk returns on the printed grid
GoodDiv == [ok |-> TRUE, reason |-> "ok", xs |-> SheetDividerXs]

GridTicks == [i \in 1..(GridRungs + 2) |-> SheetTick(i)]

\* a grid line found at each of the first n expected rows, nothing after
PeakMid == [NoEvidence EXCEPT !.h = "mid"]

GridSteps(n) == [k \in 1..n |-> PeakMid]

GoodScan ==
    [lane |-> 1, rawTicks |-> GridTicks, div |-> GoodDiv, steps |-> GridSteps(GridRungs - 1),
     tail |-> NoEvidence, lineHalf |-> 1]

\* raw tick lists as the detector returns them: increasing, more than dedupePx
\* apart, inside the image
GapSet == {11, 30, 33, 95}

RECURSIVE TickLists(_)
TickLists(n) ==
    IF n = 0 THEN { <<>> }
    ELSE IF n = 1 THEN { <<Sheet.tickY0>> }
    ELSE { Append(t, t[Len(t)] + gap) : t \in TickLists(n - 1), gap \in GapSet }

\* raw tick lists of a lane whose marks wobble around rows 30 px apart
WobbleGapSet == {22, 30, 34}

RECURSIVE WobblyLists(_)
WobblyLists(n) ==
    IF n <= 1 THEN { <<Sheet.tickY0>> }
    ELSE { Append(t, t[Len(t)] + gap) : t \in WobblyLists(n - 1), gap \in WobbleGapSet }

RawTickSet ==
    { t \in UNION { TickLists(n) \cup WobblyLists(n) : n \in 0..MaxTicks } :
        \A i \in 1..Len(t) : t[i] < Sheet.h - 6 }

\* the printed grid: six dark lines, two pixels wide, over the whole height
BLACK == [r |-> 0, g |-> 0, b |-> 0]
YELLOW == [r |-> 255, g |-> 255, b |-> 150]

VLine(x, width, c) == [rect |-> Rect(x, x + width, 0, Sheet.h), c |-> c]

GridLines == [k \in 1..6 |-> VLine(SheetDividerXs[k], 2, BLACK)]

ImageFile(layers, scan) ==
    [kind |-> "image", w |-> Sheet.w, h |-> Sheet.h, layers |-> layers,
     vlines |-> GridLines, scan |-> scan]

\* the file with the divider walk done over its own pixels
WithDividers(f) ==
    [f EXCEPT !.scan.div = DayDividersOf(f, validateTicksFromFirst(f.scan.rawTicks).ticks)]

\* the grid without line k
LinesWithout(k) == SelectSeq(GridLines, LAMBDA l : l # GridLines[k])

FridayCol == Rect(SheetRegion(5).x0, SheetRegion(5).x1, 0, Sheet.h)
WholeSheet == Rect(0, Sheet.w, 0, Sheet.h)
MondayCell == Rect(SheetRegion(1).x0, SheetRegion(1).x1, SheetBand(1).yStart, SheetBand(1).yEnd)

\* the painted sheets: blank; Friday coloured; everything coloured; everything
\* coloured but one white cell; Friday cells exactly 70% white, the rest
\* coloured; Friday cells 80% white; an off-white sheet; Monday cells about
\* 75% white, the rest coloured
LayerSet ==
    { <<NoLayer, NoLayer>>,
      << [rect |-> FridayCol, c |-> YELLOW], NoLayer >>,
      << [rect |-> WholeSheet, c |-> YELLOW], NoLayer >>,
      << [rect |-> WholeSheet, c |-> YELLOW], [rect |-> MondayCell, c |-> WHITE] >>,
      << [rect |-> WholeSheet, c |-> YELLOW],
         [rect |-> Rect(SheetRegion(5).x0 + 8, SheetRegion(5).x0 + 8 + 91, 0, Sheet.h), c |-> WHITE] >>,
      << [rect |-> Rect(SheetRegion(5).x0, SheetRegion(5).x0 + 8 + 26, 0, Sheet.h), c |-> YELLOW],
         NoLayer >>,
      << [rect |-> WholeSheet, c |-> OFFWHITE], NoLayer >>,
      << [rect |-> WholeSheet, c |-> YELLOW],
         [rect |-> Rect(SheetRegion(1).x0 + 8, SheetRegion(1).x0 + 8 + 98, 0, Sheet.h), c |-> WHITE] >> }

ScanSet ==
    { [GoodScan EXCEPT !.steps = GridSteps(k - 1)] : k \in {1, 3} } \cup
    { [GoodScan EXCEPT !.lineHalf = 12], [GoodScan EXCEPT !.lane = 2] } \cup
    { [GoodScan EXCEPT !.rawTicks = t] :
        t \in { <<Sheet.tickY0>>, [i \in 1..4 |-> Sheet.tickY0 + (i - 1) * 95], SubSeq(GridTicks, 1, 4) } }

\* sheets whose divider walk fails: no line at all, the fourth line missing
LineSet == { <<>>, LinesWithout(4) }

FileSet ==
    { WithDividers(ImageFile(l, GoodScan)) : l \in LayerSet } \cup
    { ImageFile(<<NoLayer, NoLayer>>, s) : s \in ScanSet } \cup
    { WithDividers([ImageFile(<<NoLayer, NoLayer>>, GoodScan) EXCEPT !.vlines = v]) : v \in LineSet } \cup
    { [ImageFile(<<NoLayer, NoLayer>>, GoodScan) EXCEPT !.w = 0, !.h = 0],
      [ImageFile(<<NoLayer, NoLayer>>, GoodScan) EXCEPT !.kind = "undecodable", !.w = 0, !.h = 0] }

\* sheets for the divider walk: up to MaxBadLines lines of the grid are
\* missing or printed 30 pixels to the right; one line is one pixel thin; the
\* same with one bad line on a coloured sheet
LineFor(k, kind) ==
    CASE kind = "std" -> GridLines[k]
      [] kind = "absent" -> VLine(SheetDividerXs[k], 0, BLACK)
      [] kind = "shifted" -> VLine(SheetDividerXs[k] + 30, 2, BLACK)
      [] kind = "thin" -> VLine(SheetDividerXs[k], 1, BLACK)

LinesOf(kinds) == [k \in 1..6 |-> LineFor(k, kinds[k])]

BadLines(kinds) == { k \in 1..6 : kinds[k] # "std" }

KindSet ==
    { kinds \in [1..6 -> {"std", "absent", "shifted"}] : Cardinality(BadLines(kinds)) <= MaxBadLines }
    \cup { kinds \in [1..6 -> {"std", "thin"}] : Cardinality(BadLines(kinds)) <= 1 }

OneBadKindSet ==
    { kinds \in [1..6 -> {"std", "absent", "shifted", "thin"}] : Cardinality(BadLines(kinds)) <= 1 }

DividerFile(layers, kinds) ==
    [ImageFile(layers, [GoodScan EXCEPT !.div = Unscanned]) EXCEPT !.vlines = LinesOf(kinds)]

\* a narrow table printed on the sheet: six lines 40 pixels apart
NarrowGridLines == [k \in 1..6 |-> VLine(100 + (k - 1) * 40, 2, BLACK)]

NarrowFile ==
    [ImageFile(<<NoLayer, NoLayer>>, [GoodScan EXCEPT !.div = Unscanned])
       EXCEPT !.vlines = NarrowGridLines]

DividerFileSet ==
    { NarrowFile } \cup
    { DividerFile(<<NoLayer, NoLayer>>, kinds) : kinds \in KindSet } \cup
    { DividerFile(<< [rect |-> R, c |-> YELLOW], NoLayer >>, kinds) :
        R \in {WholeSheet, FridayCol}, kinds \in OneBadKindSet }

\* sheets for the ladder: raw ticks dy apart (dy2 = 2 * dy, the gaps alternate
\* between floor(dy) and ceil(dy)), then up to MaxPeaks grid lines found low,
\* exactly or high in their snap window, then rows that only the dividers
\* confirm, at most one more grid line, and what the tick lane shows at the end
Dy2Set == {20, 60, 61, 180}

RawTicksFor(dy2) ==
    [i \in 1..7 |-> Sheet.tickY0 + ((i - 1) \div 2) * (dy2 \div 2) + (i \div 2) * ((dy2 + 1) \div 2)]

PeakSet == { [NoEvidence EXCEPT !.h = k] : k \in {"lo", "mid", "hi"} }

RECURSIVE PeakRuns(_)
PeakRuns(n) ==
    IF n = 0 THEN { <<>> }
    ELSE PeakRuns(n - 1) \cup { Append(r, e) : r \in { q \in PeakRuns(n - 1) : Len(q) = n - 1 }, e \in PeakSet }

VAccept == [NoEvidence EXCEPT !.vHits = 3, !.row = TRUE]
VLeft == [NoEvidence EXCEPT !.vHits = 3]
VRetry == [NoEvidence EXCEPT !.vHits = 2, !.row = TRUE]

VRunSet ==
    { <<>>, <<VLeft>>, <<VAccept, VAccept>>,
      [k \in 1..StableRun |-> VAccept],
      [k \in 1..(StableRun + 1) |-> IF k <= StableRun THEN VAccept ELSE VRetry],
      [k \in 1..(2 * StableRun + 1) |-> IF k % StableRun = 1 /\ k > 1 THEN VRetry ELSE VAccept] }

LaneSet == { [NoEvidence EXCEPT !.lane = k] : k \in {"none", "lo", "mid", "hi"} }

StepsSet ==
    { a \o v \o b \o <<t>> :
        a \in PeakRuns(MaxPeaks), v \in VRunSet,
        b \in { <<>>, <<[NoEvidence EXCEPT !.h = "lo"]>> }, t \in LaneSet }

LadderFile(dy2, steps, tail, h) ==
    [ImageFile(<<NoLayer, NoLayer>>,
               [GoodScan EXCEPT !.rawTicks = RawTicksFor(dy2), !.steps = steps, !.tail = tail,
                                !.lineHalf = IF dy2 < 40 THEN 0 ELSE 1])
       EXCEPT !.h = h]

\* the last two sheets show a grid line at every expected row: one down to
\* the bottom of the sheet, one on a sheet tall enough for more than maxSteps rows
LadderFileSet ==
    { LadderFile(dy2, steps, NoEvidence, Sheet.h) : dy2 \in Dy2Set, steps \in StepsSet } \cup
    { LadderFile(60, <<>>, PeakMid, Sheet.h), LadderFile(20, <<>>, PeakMid, Sheet.tallH) }

TickFileSet == { ImageFile(<<NoLayer, NoLayer>>, [GoodScan EXCEPT !.rawTicks = t]) : t \in RawTickSet }

----------------------------------------------------------------------------
(* Phase 1 of an upload (runPhase1FromFile and the change handler around it) *)

NoPhase1 == [navCore |-> NullNav]
NoStatus == [mode |-> "hide", msg |-> "", sub |-> <<>>]
Failed(sub) == [mode |-> "idle", msg |-> "Processing failed.", sub |-> sub]

BootState ==
    /\ LAST_PRE = NullPre
    /\ LAST_NAV = NullNav
    /\ TICK_LANE = NotRun
    /\ session = resetSession("boot")
    /\ phase1 = NoPhase1
    /\ navLog = NoLog
    /\ navRes = NotRun
    /\ status = NoStatus
    /\ clock = 0
    /\ queryRes = NotRun
    /\ pending = {}
    /\ selected = [id |-> 0, name |-> ""]
    /\ ladderCalls = <<>>

\* ... and no mask has been handed to buildPrefixFromMask
BootNav == BootState /\ prefixRun = NotRun

runPhase1FromFile(f) ==
    /\ clock' = clock + 1
    /\ session' = resetSession("upload file selected")
    /\ UNCHANGED classifyVars
    /\ UNCHANGED storeVars
    /\ UNCHANGED uploadVars
    /\ UNCHANGED probeVars
    /\ IF f.kind = "undecodable" THEN
           /\ status' = Failed(<<"Image decode failed">>)
           /\ phase1' = NoPhase1
           /\ navLog' = NoLog
           /\ navRes' = NotRun
           /\ UNCHANGED <<LAST_PRE, LAST_NAV, TICK_LANE>>
       ELSE LET r == buildAndPublishPrecompute(f, clock + 1)
            IN /\ LAST_PRE' = r.LAST_PRE
               /\ IF ~r.ok THEN
                      /\ status' = Failed(<<"Precompute build failed: ", r.reason>>)
                      /\ phase1' = NoPhase1
                      /\ navLog' = NoLog
                      /\ navRes' = NotRun
                      /\ UNCHANGED <<LAST_NAV, TICK_LANE>>
                  ELSE \E built \in computeFrozenNavFromPre(r.pre) :
                      LET nr == buildAndPublishNav(r.pre, built.nav, LAST_NAV)
                      IN /\ TICK_LANE' = built.lane
                         /\ navLog' = built.log
                         /\ navRes' = nr.res
                         /\ LAST_NAV' = nr.LAST_NAV
                         /\ phase1' = IF nr.res.ok THEN [navCore |-> nr.res.nav] ELSE NoPhase1
                         /\ status' = IF nr.res.ok
                                        THEN [mode |-> "idle", msg |-> "Phase 1 complete.", sub |-> <<>>]
                                        ELSE Failed(<<"Nav build failed: ", nr.res.reason>>)

----------------------------------------------------------------------------
(* Specification of the availability computation (Phase 2's call) *)

InitClassify ==
    /\ pre \in ImageSet
    /\ nav \in NavSet
    /\ spillPolicy \in {"none", "softFree"}
    /\ rnd = <<>>
    /\ cells = <<>>
    /\ availRes = NoRes
    /\ prevAvail = NoRes
    /\ BootNav
    /\ storage = [present |-> FALSE, list |-> <<>>]

\* the call computeAvailFromFrozenNav(pre, nav, {spillPolicy}) of runPhase2Finalize
ComputeAvail ==
    /\ availRes = NoRes
    /\ \E r \in RndSet(pre, nav) :
         /\ rnd' = r
         /\ cells' = ClassifyAll(pre, nav, spillPolicy, r)
    /\ availRes' = computeAvailFromFrozenNav(nav, cells')
    /\ UNCHANGED <<pre, nav, spillPolicy, prevAvail>>
    /\ UNCHANGED navVars
    /\ UNCHANGED storeVars
    /\ UNCHANGED uploadVars
    /\ UNCHANGED probeVars

\* the same call made once more on the same pre, nav and options
Recompute ==
    /\ availRes.ok
    /\ prevAvail = NoRes
    /\ \E r \in RndSet(pre, nav) :
         /\ rnd' = r
         /\ cells' = ClassifyAll(pre, nav, spillPolicy, r)
    /\ availRes' = computeAvailFromFrozenNav(nav, cells')
    /\ prevAvail' = availRes
    /\ UNCHANGED <<pre, nav, spillPolicy>>
    /\ UNCHANGED navVars
    /\ UNCHANGED storeVars
    /\ UNCHANGED uploadVars
    /\ UNCHANGED probeVars

NextClassify == ComputeAvail

SpecClassify == InitClassify /\ [][NextClassify]_vars

\* the pipeline run twice on navs the nav builder returns
InitRerun == InitClassify /\ nav \in { FullNav(k) : k \in 1..MaxSlots }

NextRerun == ComputeAvail \/ Recompute

SpecRerun == InitRerun /\ [][NextRerun]_vars

----------------------------------------------------------------------------
(* Specification of uploads: files are selected one after the other *)

InitNav ==
    /\ BootNav
    /\ storage = [present |-> FALSE, list |-> <<>>]
    /\ pre = BlankSheet
    /\ nav = FullNav(1)
    /\ spillPolicy = "softFree"
    /\ rnd = <<>>
    /\ cells = <<>>
    /\ availRes = NoRes
    /\ prevAvail = NoRes

SelectFile == clock < MaxUploads /\ \E f \in FileSet : runPhase1FromFile(f)

NextNav == SelectFile

SpecNav == InitNav /\ [][NextNav]_vars

\* one upload of a sheet whose left lane yields any of the raw tick lists
SelectTickFile == clock = 0 /\ \E f \in TickFileSet : runPhase1FromFile(f)

\* one file with a damaged grid is selected
SelectDividerFile == clock = 0 /\ \E f \in DividerFileSet : runPhase1FromFile(f)

NextDividers == SelectDividerFile

SpecDividers == InitNav /\ [][NextDividers]_vars

\* one file of the ladder family is selected
SelectLadderFile == clock = 0 /\ \E f \in LadderFileSet : runPhase1FromFile(f)

NextLadder == SelectLadderFile

SpecLadder == InitNav /\ [][NextLadder]_vars

NextTicks == SelectTickFile

SpecTicks == InitNav /\ [][NextTicks]_vars

----------------------------------------------------------------------------
(* Claims about the availability computation (SpecClassify) *)

Days(d) == availRes.avail.days[d]
WorkDays(d) == availRes.avail.workDays[d]

\* C1: in every grid returned by computeAvailFromFrozenNav, a cell whose sampled
\* purple fraction is >= 0.18 has workDays = true and days = true and the
\* busy/free rule is not consulted for it; any other cell has workDays = false;
\* hence workDays[d][i] implies days[d][i].
C1_WorkIsAvailable ==
    availRes.ok =>
      \A c \in DOMAIN cells :
        /\ (rnd[c].purple160 * 100 >= 18 * PurpleSamples) =>
              /\ WorkDays(c[1])[c[2]] = TRUE
              /\ Days(c[1])[c[2]] = TRUE
              /\ cells[c].base = NoBase
        /\ (rnd[c].purple160 * 100 < 18 * PurpleSamples) => WorkDays(c[1])[c[2]] = FALSE
        /\ WorkDays(c[1])[c[2]] => Days(c[1])[c[2]]

\* a cell that is partly purple and partly red was taken as work
C1_Witness ==
    /\ availRes.ok
    /\ \E c \in DOMAIN cells :
         /\ rnd[c].purple160 * 100 >= 18 * PurpleSamples
         /\ rnd[c].purple160 < PurpleSamples
         /\ WorkDays(c[1])[c[2]]

\* the share of the sampling rectangle of cell c that shows occupied pixels is >= 1/2
CoveredByInk(c) ==
    LET R == SampleRect(pre, nav.slotBands[c[2]], safeTrimDayRegion(nav.dayRegions[c[1]], 6))
        v == VisArea(pre, R)
        occ(k) == IF isOccupied(LayerColor(pre, k), nav.bgWhite) THEN v[k] ELSE 0
    IN 2 * (occ(1) + occ(2) + occ(3)) >= Area(R)

\* C2: in the upload flow (spillPolicy softFree) a cell without purple pixels that
\* is at least half covered by occupied pixels, and at least half of whose samples
\* are occupied, gets days[d][i] = false, wherever the rest of its pixels lie.
C2_MajorityInkIsBusy ==
    (availRes.ok /\ spillPolicy = "softFree") =>
      \A c \in DOMAIN cells :
        (/\ rnd[c].purple160 = 0
         /\ cells[c].base.ok
         /\ cells[c].base.purpleCount = 0
         /\ cells[c].base.occupiedCount * 100 >= 50 * ClassifySamples
         /\ CoveredByInk(c))
        => Days(c[1])[c[2]] = FALSE

\* C3: for a cell with valid geometry classifySlotSample returns free = false when
\* occupiedCount/samples >= 0.50 and otherwise free = (bgFrac >= 0.82 or (bgFrac >=
\* 0.55 and inkFrac <= 0.12)), the counts being those of the 140 samples.
C3_HybridRule ==
    \A c \in DOMAIN cells :
      cells[c].base.ok =>
        LET b == cells[c].base
            bg == nav.bgWhite
            isBg(x) == isBgMatch(x, bg)
            isInk(x) == ~isNearWhite(x)
            isOcc(x) == ~isNearWhite(x) /\ ~isPurpleMatch(x) /\ ~isBgMatch(x, bg)
        IN /\ b.bgCount = CountDraw(pre, rnd[c].s140, isBg)
           /\ b.nonWhiteCount = CountDraw(pre, rnd[c].s140, isInk)
           /\ b.occupiedCount = CountDraw(pre, rnd[c].s140, isOcc)
           /\ (2 * b.occupiedCount >= ClassifySamples) => (b.free = FALSE)
           /\ (2 * b.occupiedCount < ClassifySamples) =>
                (b.free <=> (\/ 50 * b.bgCount >= 41 * ClassifySamples
                             \/ (/\ 20 * b.bgCount >= 11 * ClassifySamples
                                 /\ 25 * b.nonWhiteCount <= 3 * ClassifySamples)))

\* a cell that is free only by the second disjunct, with some samples occupied elsewhere
C3_Witness ==
    \E c \in DOMAIN cells :
      /\ cells[c].base.ok
      /\ cells[c].base.free
      /\ cells[c].base.bgCount * 100 < 82 * ClassifySamples

\* C4 as stated: for any nav the input checks accept, days[d] and workDays[d] of
\* all five weekdays are boolean arrays of length avail.slots = number of SlotBands.
C4_Original ==
    availRes.ok =>
      \A d \in WeekdaySet :
        /\ Len(Days(d)) = availRes.avail.slots
        /\ Len(WorkDays(d)) = availRes.avail.slots
        /\ availRes.avail.slots = Len(nav.slotBands)

\* C4 amended: avail.slots is the number of SlotBands; for every weekday days[d]
\* and workDays[d] are boolean arrays of equal length, which is avail.slots when
\* nav.dayRegions has the weekday and 0 when it has not.
C4_GridShape ==
    availRes.ok =>
      /\ availRes.avail.slots = Len(nav.slotBands)
      /\ \A d \in WeekdaySet :
           /\ Len(Days(d)) = Len(WorkDays(d))
           /\ \A i \in 1..Len(Days(d)) : Days(d)[i] \in BOOLEAN /\ WorkDays(d)[i] \in BOOLEAN
           /\ (d \in DOMAIN nav.dayRegions) => Len(Days(d)) = availRes.avail.slots
           /\ (d \notin DOMAIN nav.dayRegions) => Len(Days(d)) = 0

\* a grid was returned for a nav that lacks a weekday, and one of its cells is work
C4_Witness ==
    /\ availRes.ok
    /\ \E d \in WeekdaySet : d \notin DOMAIN nav.dayRegions
    /\ \E d \in WeekdaySet : \E i \in 1..Len(WorkDays(d)) : WorkDays(d)[i]

\* C5: two runs on the identical pixel buffer with the same configuration give
\* identical availability grids.
C5_Idempotent ==
    (prevAvail.ok /\ availRes.ok) => availRes = prevAvail

----------------------------------------------------------------------------
(* Claims about the nav builder *)

FridayFailed == navLog.calF # NotRun /\ ~navLog.calF.ok
GlobalRan == navLog.calG # NotRun
BuildFailed == navRes # NotRun /\ ~navRes.ok
StaleNav == LAST_NAV # NullNav /\ LAST_NAV.preMeta.ts # LAST_PRE.meta.ts

\* C6: the global calibration is run only if the Friday calibration did not
\* succeed; when Friday succeeds the nav's bgWhite is Friday's bg; when both
\* fail the builder returns null, buildAndPublishNav returns ok:false and
\* LAST_NAV is not assigned the current image's nav.
C6_FridayFirst ==
    /\ GlobalRan => FridayFailed
    /\ (navLog.calF # NotRun /\ navLog.calF.ok) =>
          /\ navRes.ok
          /\ navRes.nav.bgWhite = navLog.calF.bg
          /\ LAST_NAV = navRes.nav
    /\ (FridayFailed /\ GlobalRan /\ ~navLog.calG.ok) =>
          /\ BuildFailed
          /\ navRes.nav = NullNav
          /\ phase1 = NoPhase1
          /\ (LAST_NAV = NullNav \/ StaleNav)

C6_Witness == FridayFailed /\ GlobalRan /\ ~navLog.calG.ok /\ BuildFailed /\ navLog.bail = "bgWhite"

\* the inset cells of the whole grid the builder got to
GridCells ==
    GlobalCandidates(LAST_PRE, navLog.fr.regions, navLog.slots)

\* an index of a whitest cell among those not in excl
Whitest(cs, excl) ==
    CHOOSE i \in (1..Len(cs)) \ excl :
      \A j \in (1..Len(cs)) \ excl : ~FracGT(cs[j].whiteFrac, cs[i].whiteFrac)

\* the mean white fraction of three whitest cells against 0.70; no three
\* cells have a larger mean
ThreeWhitestVs70(cs) ==
    LET a == Whitest(cs, {})
        b == Whitest(cs, {a})
        c == Whitest(cs, {a, b})
    IN MeanVs70(<<cs[a], cs[b], cs[c]>>)

FridayLow == FridayFailed /\ navLog.calF.reason = "friday too busy/colored (low whiteness)"

\* C7 as stated: after Friday failed for low whiteness the global strategy
\* succeeds whenever some combination of cells outside Friday's column has a
\* mean white fraction >= 0.70 (such a combination exists exactly when one
\* such cell alone has a white fraction >= 0.70).
C7_Original ==
    FridayLow =>
      /\ GlobalRan
      /\ LET cs == GridCells
         IN (\E k \in 1..(4 * Len(navLog.slots)) :
                10 * cs[k].whiteFrac[1] >= 7 * cs[k].whiteFrac[2])
              => navLog.calG.ok

\* C7: after Friday failed for low whiteness the global strategy is run; it
\* succeeds, and its bg becomes the nav's bgWhite, whenever the three whitest
\* cells of the whole grid have a mean white fraction above 0.70, and it fails
\* with "global fallback too colored" whenever their mean white fraction is
\* below 0.70.
C7_GlobalFallback ==
    FridayLow =>
      /\ GlobalRan
      /\ ThreeWhitestVs70(GridCells) = "above" =>
            (navLog.calG.ok /\ navRes.ok /\ navRes.nav.bgWhite = navLog.calG.bg)
      /\ ThreeWhitestVs70(GridCells) = "below" =>
            (~navLog.calG.ok /\ navLog.calG.reason = "global fallback too colored")

C7_Witness ==
    /\ FridayLow /\ GlobalRan /\ navLog.calG.ok
    /\ navRes.ok /\ navRes.nav.bgWhite = navLog.calG.bg
    /\ ThreeWhitestVs70(GridCells) = "above"
    /\ LET cs == GridCells IN \E k \in 1..Len(cs) : cs[k].whiteFrac[1] = 0

\* C8: validateTicksFromFirst returns ok exactly when the raw list has at
\* least 2 ticks, the median dy of its positive differences is in [10, 90] and
\* some candidate start yields a greedy chain of at least 6 ticks (the result
\* then carries such a chain); a list of one tick fails; and after a failed
\* validation the builder returns null.
C8_TickValidation ==
    LET raw == navLog.raw
        v == navLog.v
        dy2 == computeMedianDy(raw)
    IN /\ Len(raw) >= 1 => ~validateTicksFromFirst(SubSeq(raw, 1, 1)).ok
       /\ v # NotRun =>
            /\ v.ok <=> /\ Len(raw) >= 2
                         /\ dy2 >= 20 /\ dy2 <= 180
                         /\ \E i \in ChainStarts(raw) :
                               Len(validateFromIndex(raw, dy2, SnapWinOf(dy2), i)) >= 6
            /\ v.ok => Len(v.ticks) >= 6
            /\ ~v.ok => (BuildFailed /\ navRes.nav = NullNav /\ phase1 = NoPhase1
                           /\ navLog.bail = "validateTicksFromFirst")

C8_Witness ==
    /\ navLog.v # NotRun /\ ~navLog.v.ok
    /\ navLog.v.reason = "too few validated ticks" /\ Len(navLog.v.ticks) = 5
    /\ BuildFailed /\ navRes.nav = NullNav

\* C9: when a stage of the nav pipeline fails with a reason string of its
\* own, buildAndPublishNav returns ok:false with that reason unchanged.
C9_ReasonPropagated ==
    (BuildFailed /\ navLog.reason # "") => navRes.reason = navLog.reason

\* C10: after the nav build for the current image failed, neither LAST_NAV /
\* __LAST_NAV__ nor snapshotNavState() yields a nav built from an earlier image.
C10_NothingPersists ==
    BuildFailed =>
      /\ ~StaleNav
      /\ LET snap == snapshotNavState(session, LAST_NAV)
         IN ~(snap.ok /\ snap.nav.preMeta.ts # LAST_PRE.meta.ts)

----------------------------------------------------------------------------
(* Day dividers and day regions *)

\* the expected position i (0..5) has no admissible stripe in its window
WindowEmptyAt(img, yCenter, xGuess) ==
    \A dx \in (0 - 40)..40 :
       \/ xGuess + dx <= 0
       \/ xGuess + dx >= img.w
       \/ ~FracAtLeast(scoreVLineAtX(img, xGuess + dx, yCenter), 18)

SomeWindowEmpty(img, yCenter, left, right) ==
    /\ left # NoDivider
    /\ right # NoDivider
    /\ right.x > left.x + 50
    /\ \E i \in 0..5 : WindowEmptyAt(img, yCenter, left.x + ((right.x - left.x) * i) \div 5)

DetectionMustFail(img, yCenter) ==
    SomeWindowEmpty(img, yCenter, LeftmostStripe(img, yCenter), RightmostStripe(img, yCenter))

DividersRan == navLog.divRes # NotRun

RegionsFrozen == DividersRan /\ navLog.divRes.ok /\ navLog.fr # NotRun /\ navLog.fr.ok

\* C11: when divider detection and region freezing succeed there are exactly
\* six divider x in non-decreasing order, the region of weekday i runs from
\* divider i to divider i+1, and a nav that is built carries these; when one of
\* the six expected positions has no x in its search window with non-white
\* fraction >= 0.18, detection fails, no regions are frozen and no nav is built
C11_DividersAndRegions ==
    DividersRan =>
      /\ RegionsFrozen =>
            /\ Len(navLog.fr.xs) = 6
            /\ \A i \in 1..5 : navLog.fr.xs[i] <= navLog.fr.xs[i + 1]
            /\ \A i \in 1..5 :
                  navLog.fr.regions[WEEKDAYS[i]] =
                    [x0 |-> navLog.fr.xs[i], x1 |-> navLog.fr.xs[i + 1]]
            /\ navRes.ok => /\ navRes.nav.dividerXs = navLog.fr.xs
                            /\ navRes.nav.dayRegions = navLog.fr.regions
      /\ DetectionMustFail(LAST_PRE, pickDayBandY(LAST_PRE.h, navLog.v.ticks)) =>
            /\ ~navLog.divRes.ok
            /\ navLog.fr = NotRun
            /\ ~navRes.ok
            /\ phase1 = NoPhase1

\* regions were frozen from dividers that are not those of the printed grid
C11_Witness ==
    /\ RegionsFrozen
    /\ navRes.ok
    /\ navLog.fr.xs # SheetDividerXs
    /\ \E i \in 1..6 : navLog.fr.xs[i] = SheetDividerXs[i] + 30

----------------------------------------------------------------------------
(* Slot bands, validated ticks and the global ladder *)

NavBuilt == navRes # NotRun /\ navRes.ok

LadderRan == navLog.g # NotRun

Increasing(t) == \A i \in 1..(Len(t) - 1) : t[i] < t[i + 1]

C13_StrictlyIncreasing ==
    /\ (navLog.v # NotRun /\ navLog.v.dy2 >= 20 /\ navLog.v.dy2 <= 180) => Increasing(navLog.v.ticks)
    /\ LadderRan => Increasing(navLog.g.ticks)
    /\ NavBuilt => Increasing(navRes.nav.ticksForMap)

Hows(t) == { t[i].how : i \in 1..Len(t) }

\* at the smallest dy, a ladder that horizontal peaks, vertical structure and
\* the terminal recovery all added to
C13_Witness ==
    /\ LadderRan
    /\ navLog.g.dy2 = 20
    /\ {"peak", "vertical", "lane"} \subseteq Hows(navLog.g.trace)

\* the gaps of the ladder that differ from dy by more than snapWin
BadGaps(g) ==
    { i \in 1..(Len(g.ticks) - 1) :
        \/ 2 * (g.ticks[i + 1] - g.ticks[i]) - g.dy2 > 2 * g.snapWin
        \/ g.dy2 - 2 * (g.ticks[i + 1] - g.ticks[i]) > 2 * g.snapWin }

\* C14: every gap of the ladder differs from dy by at most snapWin, except for
\* at most one gap, where the extension applied its one-time allowed gap
C14_GapsWithinSnap ==
    (LadderRan /\ navLog.g.ok) =>
      \/ BadGaps(navLog.g) = {}
      \/ navLog.g.allowedGapUsed = 1 /\ Cardinality(BadGaps(navLog.g)) = 1

\* C15: the loop of the ladder makes at most 120 passes, every tick it appends
\* was expected above row h - 2, it stops when the next expected row reaches
\* h - 2, and the ladder has at most 121 ticks
C15_LadderBounded ==
    LadderRan =>
      /\ navLog.g.steps <= 120
      /\ Len(navLog.g.ticks) <= 121
      /\ Len(navLog.g.ticks) <= navLog.g.steps + 1
      /\ \A k \in 1..Len(navLog.g.trace) : navLog.g.trace[k].e2 < 2 * (LAST_PRE.h - 2)
      /\ navLog.g.stopReason = "hit image bottom" =>
            navLog.g.prev2 + navLog.g.dy2 >= 2 * (LAST_PRE.h - 2)
      /\ navLog.g.stopReason = "unknown" => navLog.g.steps = 120

\* the ladder that used all its passes
C15_Witness ==
    /\ LadderRan
    /\ navLog.g.steps = 120
    /\ Len(navLog.g.ticks) = 121
    /\ navLog.g.stopReason = "unknown"

----------------------------------------------------------------------------
(* Layer B+: the saved schedules in localStorage and the query over them.    *)
(* A time string "h:mm AM" is kept as its three parts hh, mm, ap; NoText is  *)
(* the empty string.  A record id is a positive number (0: no usable id), a  *)
(* savedAtISO stamp is a positive number ordered as localeCompare orders the *)
(* strings (0: no usable stamp).  Thumbnails are left out.                   *)

TIME_STEP_MIN == 30
MAX_SCHEDULES_SOFT == 60

NaN == 0 - 1
NoText == [hh |-> 0, mm |-> 0, ap |-> ""]
TimeStr(hh, mm, ap) == [hh |-> hh, mm |-> mm, ap |-> ap]

isNonEmptyString(x) == x # NoText

minutesToTimeStr(totalMinutes) ==
    LET t == Max(0, totalMinutes)
        hour == t \div 60
    IN [hh |-> IF hour % 12 = 0 THEN 12 ELSE hour % 12,
        mm |-> t % 60,
        ap |-> IF hour >= 12 THEN "PM" ELSE "AM"]

timeStrToMinutes(str) ==
    IF str.ap \notin {"AM", "PM"} THEN NaN
    ELSE IF str.hh < 1 \/ str.hh > 12 THEN NaN
    ELSE IF str.mm < 0 \/ str.mm > 59 THEN NaN
    ELSE LET hh == IF str.ap = "AM" THEN (IF str.hh = 12 THEN 0 ELSE str.hh)
                   ELSE (IF str.hh # 12 THEN str.hh + 12 ELSE str.hh)
         IN hh * 60 + str.mm

NullAvail == [isAvail |-> FALSE]

isValidBgWhite(bg) ==
    /\ bg.r >= 0 /\ bg.r <= 255
    /\ bg.g >= 0 /\ bg.g <= 255
    /\ bg.b >= 0 /\ bg.b <= 255
    /\ bg.tol >= 0 /\ bg.tol <= BG_TOL_MAX

isValidNav(n) ==
    /\ n # NullNav
    /\ isNonEmptyString(n.anchorStartTime)
    /\ Len(n.ticksForMap) >= 2
    /\ Len(n.slotBands) >= 1
    /\ \A k \in 1..Len(n.slotBands) : n.slotBands[k].yEnd > n.slotBands[k].yStart
    /\ \A k \in 1..5 : /\ WEEKDAYS[k] \in DOMAIN n.dayRegions
                       /\ n.dayRegions[WEEKDAYS[k]].x1 > n.dayRegions[WEEKDAYS[k]].x0
    /\ isValidBgWhite(n.bgWhite)

isValidAvail(a) ==
    /\ a # NullAvail
    /\ isNonEmptyString(a.anchorStartTime)
    /\ a.slots > 0
    /\ \A k \in 1..5 : Len(a.days[WEEKDAYS[k]]) = a.slots

\* raw[f] where the raw object has the property, else what a missing property reads as
Field(raw, f, missing) == IF f \in DOMAIN raw THEN raw[f] ELSE missing

makeId(now, k) == 1000 * (now + 1) + k
nowISO(now) == 100 + now
pickPersonName(x) == IF x = "" THEN "Unnamed" ELSE x

\* raw is the k-th object normalised at time now
normalizeRecord(raw, now, k) ==
    LET n == Field(raw, "nav", NullNav)
        a == Field(raw, "avail", NullAvail)
        navOK == isValidNav(n)
        availOK == isValidAvail(a)
    IN [id |-> IF Field(raw, "id", 0) # 0 THEN raw.id ELSE makeId(now, k),
        person |-> pickPersonName(Field(raw, "person", "")),
        savedAtISO |-> IF Field(raw, "savedAtISO", 0) # 0 THEN raw.savedAtISO ELSE nowISO(now),
        nav |-> IF navOK THEN n ELSE NullNav,
        avail |-> IF availOK THEN a ELSE NullAvail,
        flags |-> [navReady |-> navOK, availReady |-> availOK, queryable |-> navOK /\ availOK]]

\* the loop of sanitizeSchedulesList: the records normalised, in the order of the list
Normalized(list, now) == [k \in 1..Len(list) |-> normalizeRecord(list[k], now, k)]

\* the k-th of the positions kept
NthOf(keep, i) == CHOOSE k \in keep : Cardinality({ j \in keep : j <= k }) = i

\* ... of which the first record of every id is kept
DeDupe_KeepAll(norm) == norm

DeDupe(norm) ==
    LET keep == { k \in 1..Len(norm) : \A j \in 1..(k - 1) : norm[j].id # norm[k].id }
    IN [i \in 1..Cardinality(keep) |-> norm[NthOf(keep, i)]]

\* the place the stable sort, newest first, gives the k-th record
RankNewestFirst(out) ==
    [k \in 1..Len(out) |->
        1 + Cardinality({ j \in 1..Len(out) : out[j].savedAtISO > out[k].savedAtISO })
          + Cardinality({ j \in 1..(k - 1) : out[j].savedAtISO = out[k].savedAtISO })]

Placed(out, rank) == [i \in 1..Len(out) |-> out[CHOOSE k \in 1..Len(out) : rank[k] = i]]

SortNewestFirst(out) == Placed(out, RankNewestFirst(out))

SoftCap_Off(out) == out

SoftCap(out) ==
    IF Len(out) > MAX_SCHEDULES_SOFT THEN SubSeq(out, 1, MAX_SCHEDULES_SOFT) ELSE out

sanitizeSchedulesList(list, now) ==
    SoftCap(SortNewestFirst(DeDupe(Normalized(list, now))))

\* the key is absent: getItem gives null, which parses to null and is read as no list
NoKey == [present |-> FALSE, list |-> <<>>]
Stored(list) == [present |-> TRUE, list |-> list]

\* the list returned and the value the key is left with; an absent key is
\* written too, its text "null" differing from "[]"
loadSchedulesList(raw, now) ==
    LET clean == sanitizeSchedulesList(raw.list, now)
    IN [list |-> clean, storage |-> Stored(clean)]

saveSchedulesList(list, now) ==
    LET clean == sanitizeSchedulesList(list, now)
    IN [list |-> clean, storage |-> Stored(clean)]

\* maskArr[i] === true, i counted from 0 as in the code
MaskAt(maskArr, i) == (i + 1) \in DOMAIN maskArr /\ maskArr[i + 1] = TRUE

TimeRange(startMin, endMin) ==
    [start |-> minutesToTimeStr(startMin), end |-> minutesToTimeStr(endMin)]

\* the for loop of buildRangesFromMask and the closing of the trailing run;
\* runStartIdx = NaN stands for null
RECURSIVE RangeLoop(_, _, _, _)
RangeLoop(c, i, runStartIdx, ranges) ==
    IF i >= c.i1 THEN
        IF runStartIdx = NaN THEN ranges
        ELSE LET runStartMin == Max(c.clampStartMin, c.anchorMin + runStartIdx * c.step)
                 runEndMin == c.clampEndMin
             IN IF runEndMin > runStartMin
                  THEN Append(ranges, TimeRange(runStartMin, runEndMin))
                  ELSE ranges
    ELSE IF MaskAt(c.maskArr, i) THEN
        RangeLoop(c, i + 1, IF runStartIdx = NaN THEN i ELSE runStartIdx, ranges)
    ELSE IF runStartIdx = NaN THEN
        RangeLoop(c, i + 1, NaN, ranges)
    ELSE LET runStartMin == Max(c.clampStartMin, c.anchorMin + runStartIdx * c.step)
             runEndMin == Min(c.clampEndMin, c.anchorMin + i * c.step)
         IN RangeLoop(c, i + 1, NaN,
                      IF runEndMin > runStartMin
                        THEN Append(ranges, TimeRange(runStartMin, runEndMin))
                        ELSE ranges)

buildRangesFromMask(maskArr, i0, i1, anchorMin, step, clampStartMin, clampEndMin) ==
    RangeLoop([maskArr |-> maskArr, i1 |-> i1, anchorMin |-> anchorMin, step |-> step,
               clampStartMin |-> clampStartMin, clampEndMin |-> clampEndMin],
              i0, NaN, <<>>)

\* FREE = available AND NOT work, when the work grid has the length of the day grid
freeMaskOf_WorkIgnored(dayArr, workArr, slotsFinal) == dayArr

freeMaskOf(dayArr, workArr, slotsFinal) ==
    IF Len(workArr) = slotsFinal
      THEN [i \in 1..slotsFinal |-> dayArr[i] = TRUE /\ workArr[i] # TRUE]
      ELSE dayArr

Skip(person, reason, range) ==
    [listed |-> FALSE, person |-> person, reason |-> reason, range |-> range,
     freeRanges |-> <<>>, workRanges |-> <<>>]

\* the ranges of one record whose grid and anchor are usable
RangesOfRecord(person, dayArr, workArr, slotsFinal, anchorMin, startMin, endMin) ==
    LET step == TIME_STEP_MIN
        schedStart == anchorMin
        schedEnd == anchorMin + slotsFinal * step
        clampStart == Max(startMin, schedStart)
        clampEnd == Min(endMin, schedEnd)
    IN IF clampEnd <= clampStart THEN
           Skip(person, "Query window outside schedule range",
                <<minutesToTimeStr(schedStart), minutesToTimeStr(schedEnd)>>)
       ELSE
           LET i0 == Max(0, (clampStart - anchorMin) \div step)
               i1 == Min(slotsFinal, CeilDiv(clampEnd - anchorMin, step))
               freeRanges == buildRangesFromMask(freeMaskOf(dayArr, workArr, slotsFinal),
                                                 i0, i1, anchorMin, step, startMin, endMin)
               workRanges == IF Len(workArr) = slotsFinal
                               THEN buildRangesFromMask(workArr, i0, i1, anchorMin, step,
                                                        startMin, endMin)
                               ELSE <<>>
           IN IF freeRanges # <<>> \/ workRanges # <<>>
                THEN [listed |-> TRUE, person |-> person, reason |-> "", range |-> <<>>,
                      freeRanges |-> freeRanges, workRanges |-> workRanges]
                ELSE Skip(person, "No free or placement time in range", <<>>)

\* one pass of the loop over the saved records
QueryRecord(rec, day, startMin, endMin) ==
    IF rec.avail = NullAvail \/ day \notin DOMAIN rec.avail.days THEN
        Skip(rec.person, "No availability grid for this day", <<>>)
    ELSE
        LET avail == rec.avail
            dayArr == avail.days[day]
            slotsFinal == IF avail.slots > 0 THEN avail.slots ELSE Len(dayArr)
            anchor == IF isNonEmptyString(avail.anchorStartTime) THEN avail.anchorStartTime
                      ELSE IF rec.nav # NullNav /\ isNonEmptyString(rec.nav.anchorStartTime)
                             THEN rec.nav.anchorStartTime
                      ELSE TimeStr(8, 0, "AM")
            anchorMin == timeStrToMinutes(anchor)
            workArr == IF day \in DOMAIN avail.workDays THEN avail.workDays[day] ELSE <<>>
        IN IF Len(dayArr) # slotsFinal THEN
               Skip(rec.person, "No availability grid for this day", <<>>)
           ELSE IF anchorMin = NaN THEN
               Skip(rec.person, "Bad anchorStartTime", <<>>)
           ELSE RangesOfRecord(rec.person, dayArr, workArr, slotsFinal, anchorMin, startMin, endMin)

RECURSIVE QueryLoop(_, _, _, _, _, _, _)
QueryLoop(saved, k, day, startMin, endMin, available, skipped) ==
    IF k > Len(saved) THEN [available |-> available, skipped |-> skipped]
    ELSE LET o == QueryRecord(saved[k], day, startMin, endMin)
         IN IF o.listed
              THEN QueryLoop(saved, k + 1, day, startMin, endMin,
                             Append(available, [person |-> o.person, freeRanges |-> o.freeRanges,
                                                workRanges |-> o.workRanges]),
                             skipped)
              ELSE QueryLoop(saved, k + 1, day, startMin, endMin, available,
                             Append(skipped, [person |-> o.person, reason |-> o.reason,
                                              range |-> o.range]))

\* the result, and the value the storage key is left with
queryAllSavedSchedulesDayRange(raw, day, startStr, endStr, now) ==
    LET startMin == timeStrToMinutes(startStr)
        endMin == timeStrToMinutes(endStr)
    IN IF startMin = NaN \/ endMin = NaN \/ startMin >= endMin THEN
           [res |-> [run |-> TRUE, ok |-> FALSE, reason |-> "Invalid time range", day |-> day,
                     startStr |-> startStr, endStr |-> endStr,
                     available |-> <<>>, skipped |-> <<>>],
            storage |-> raw]
       ELSE
           LET loaded == loadSchedulesList(raw, now)
               lists == QueryLoop(loaded.list, 1, day, startMin, endMin, <<>>, <<>>)
           IN [res |-> [run |-> TRUE, ok |-> TRUE, reason |-> "", day |-> day,
                        startStr |-> startStr, endStr |-> endStr,
                        available |-> lists.available, skipped |-> lists.skipped],
               storage |-> loaded.storage]

----------------------------------------------------------------------------
(* The saved lists and the queries that are enumerated *)

T800 == TimeStr(8, 0, "AM")

StoredNav == [FullNav(1) EXCEPT !.anchorStartTime = T800]

Masks(n) == [1..n -> BOOLEAN]

\* work grids: of the length of the day grid, empty (what Add Schedule fills
\* in when the session has none), or of another length
WorkGrids(n) == Masks(n) \cup { <<>>, [i \in 1..(n + 1) |-> TRUE] }

SavedAvail(anchor, dayArr, workArr, fridayLen) ==
    [version |-> 1, anchorStartTime |-> anchor, slots |-> Len(dayArr),
     days |-> [d \in WeekdaySet |->
                 IF d = "Monday" THEN dayArr
                 ELSE IF d = "Friday" THEN [i \in 1..fridayLen |-> FALSE]
                 ELSE [i \in 1..Len(dayArr) |-> FALSE]],
     workDays |-> [d \in WeekdaySet |-> IF d = "Monday" THEN workArr ELSE <<>>]]

AnchorSet == { T800, TimeStr(9, 30, "AM"), TimeStr(0, 0, "AM") }

AvailSet ==
    { SavedAvail(anchor, dayArr, workArr, Len(dayArr)) :
        anchor \in AnchorSet,
        dayArr \in UNION { Masks(n) : n \in 1..MaxGrid },
        workArr \in UNION { WorkGrids(n) : n \in 1..MaxGrid } } \ { NullAvail }

SavedRecord(id, person, stamp, n, a) ==
    [id |-> id, person |-> person, savedAtISO |-> stamp, nav |-> n, avail |-> a]

QueryStorageSet ==
    { NoKey } \cup
    { Stored(<<SavedRecord(1, "Ana", 10, StoredNav, a)>>) :
        a \in { x \in AvailSet : Len(x.workDays["Monday"]) \in {0, x.slots, x.slots + 1} } } \cup
    { Stored(<<SavedRecord(1, "Ana", 10, StoredNav, SavedAvail(T800, <<TRUE, TRUE>>, <<>>, 2)),
               SavedRecord(2, "Ben", 20, StoredNav, a)>>) :
        a \in { SavedAvail(T800, <<FALSE, TRUE>>, <<TRUE, FALSE>>, 2),
                SavedAvail(T800, <<TRUE>>, <<>>, 3),
                NullAvail } }

QueryTimes ==
    { TimeStr(7, 30, "AM"), T800, TimeStr(8, 15, "AM"), TimeStr(8, 30, "AM"),
      TimeStr(9, 0, "AM"), TimeStr(9, 45, "AM"), TimeStr(10, 0, "AM"),
      TimeStr(12, 0, "PM"), TimeStr(13, 0, "PM") }

QueryDays == { "Monday", "Friday", "Sunday" }

----------------------------------------------------------------------------
(* Specification of one query over a saved list *)

InitQuery ==
    /\ BootNav
    /\ pre = BlankSheet
    /\ nav = FullNav(1)
    /\ spillPolicy = "softFree"
    /\ rnd = <<>>
    /\ cells = <<>>
    /\ availRes = NoRes
    /\ prevAvail = NoRes
    /\ storage \in QueryStorageSet

\* the click handler of query.js: runQuery
runQuery(day, startStr, endStr) ==
    LET q == queryAllSavedSchedulesDayRange(storage, day, startStr, endStr, clock + 1)
    IN /\ queryRes' = q.res
       /\ storage' = q.storage
       /\ clock' = clock + 1
       /\ UNCHANGED classifyVars
       /\ UNCHANGED <<LAST_PRE, LAST_NAV, TICK_LANE, session, phase1, navLog, navRes, status>>
       /\ UNCHANGED uploadVars
       /\ UNCHANGED probeVars

RunQuery ==
    /\ clock = 0
    /\ \E day \in QueryDays, startStr \in QueryTimes, endStr \in QueryTimes :
         runQuery(day, startStr, endStr)

NextQuery == RunQuery

SpecQuery == InitQuery /\ [][NextQuery]_vars

----------------------------------------------------------------------------
(* Claims about the query over the saved schedules (SpecQuery) *)

QueryListed == queryRes # NotRun /\ queryRes.ok

\* the saved record of a listed person (the persons of the enumerated lists differ)
RecordOf(person) ==
    CHOOSE rec \in { storage.list[k] : k \in 1..Len(storage.list) } : rec.person = person

\* the minutes a returned range stands for
MinutesOf(r) ==
    IF timeStrToMinutes(r.start) = NaN \/ timeStrToMinutes(r.end) = NaN THEN {}
    ELSE timeStrToMinutes(r.start) .. (timeStrToMinutes(r.end) - 1)

\* minute m lies in a half-hour slot of the record's schedule whose mask entry is true
MinuteOn(rec, mask, m) ==
    LET anchorMin == timeStrToMinutes(rec.avail.anchorStartTime)
    IN /\ m >= anchorMin
       /\ (m - anchorMin) \div TIME_STEP_MIN + 1 <= rec.avail.slots
       /\ (m - anchorMin) \div TIME_STEP_MIN + 1 \in DOMAIN mask
       /\ mask[(m - anchorMin) \div TIME_STEP_MIN + 1] = TRUE

\* the free mask of the claim: available, and not work where the work grid has the slot count
FreeGrid(rec, day) ==
    [i \in 1..rec.avail.slots |->
        /\ rec.avail.days[day][i] = TRUE
        /\ ~(Len(rec.avail.workDays[day]) = rec.avail.slots /\ rec.avail.workDays[day][i] = TRUE)]

RangesFollowMask(ranges, rec, mask) ==
    LET startMin == timeStrToMinutes(queryRes.startStr)
        endMin == timeStrToMinutes(queryRes.endStr)
    IN /\ \A j \in 1..Len(ranges) :
            /\ MinutesOf(ranges[j]) # {}
            /\ \A m \in MinutesOf(ranges[j]) :
                   startMin <= m /\ m < endMin /\ MinuteOn(rec, mask, m)
            \* maximal: the minute before and the minute after are outside the window or off
            /\ timeStrToMinutes(ranges[j].start) > startMin
                   => ~MinuteOn(rec, mask, timeStrToMinutes(ranges[j].start) - 1)
            /\ timeStrToMinutes(ranges[j].end) < endMin
                   => ~MinuteOn(rec, mask, timeStrToMinutes(ranges[j].end))
       /\ \A j \in 1..(Len(ranges) - 1) :
            timeStrToMinutes(ranges[j].end) < timeStrToMinutes(ranges[j + 1].start)

\* C16: for every listed person, every minute of every free range (work range)
\* lies inside the query window and inside a half-hour slot of the person's
\* schedule whose free (work) mask entry is true, so no range extends past
\* anchor + slots*30 minutes; the ranges are maximal merged runs in increasing order
C16_RangesInsideWindowAndSlots ==
    QueryListed =>
      \A k \in 1..Len(queryRes.available) :
         /\ RangesFollowMask(queryRes.available[k].freeRanges,
                             RecordOf(queryRes.available[k].person),
                             FreeGrid(RecordOf(queryRes.available[k].person), queryRes.day))
         /\ RangesFollowMask(queryRes.available[k].workRanges,
                             RecordOf(queryRes.available[k].person),
                             RecordOf(queryRes.available[k].person).avail.workDays[queryRes.day])

\* a free range and a work range of one person share a minute
RangesOverlap(e) ==
    \E i \in 1..Len(e.freeRanges), j \in 1..Len(e.workRanges) :
        MinutesOf(e.freeRanges[i]) \cap MinutesOf(e.workRanges[j]) # {}

\* a free range covers a minute of a slot that workDays flags true
WorkSlotCovered(e, rec, day) ==
    \E i \in 1..Len(e.freeRanges) :
        \E m \in MinutesOf(e.freeRanges[i]) : MinuteOn(rec, rec.avail.workDays[day], m)

\* C17: where the work grid of the day has as many entries as the record has
\* slots, no slot flagged true in workDays is covered by a free range of the
\* person, and the person's free ranges and work ranges do not overlap
C17_FreeExcludesWork ==
    QueryListed =>
      \A k \in 1..Len(queryRes.available) :
         LET e == queryRes.available[k]
             rec == RecordOf(e.person)
         IN Len(rec.avail.workDays[queryRes.day]) = rec.avail.slots =>
              ~WorkSlotCovered(e, rec, queryRes.day) /\ ~RangesOverlap(e)

\* a person with a slot that is both available and work, inside the window,
\* is listed with a free range and a work range
C17_Witness ==
    /\ QueryListed
    /\ \E k \in 1..Len(queryRes.available) :
         LET e == queryRes.available[k]
             rec == RecordOf(e.person)
         IN /\ Len(rec.avail.workDays[queryRes.day]) = rec.avail.slots
            /\ e.freeRanges # <<>>
            /\ e.workRanges # <<>>
            /\ \E i \in 1..rec.avail.slots :
                 /\ rec.avail.days[queryRes.day][i] = TRUE
                 /\ rec.avail.workDays[queryRes.day][i] = TRUE
                 /\ \E j \in 1..Len(e.workRanges) :
                      \E m \in MinutesOf(e.workRanges[j]) :
                        (m - timeStrToMinutes(rec.avail.anchorStartTime)) \div TIME_STEP_MIN + 1 = i

----------------------------------------------------------------------------
(* Specification of the session object under resetSession and publishSession *)

WithoutKey(n, key) == [f \in DOMAIN n \ {key} |-> n[f]]

\* navs with a key absent, with a null background, with the background under bg
PublishNavSet ==
    { NullNav, FullNav(1), FullNav(2), [FullNav(1) EXCEPT !.slotBands = <<>>],
      [FullNav(1) EXCEPT !.bgWhite = NullBg] } \cup
    { WithoutKey(FullNav(1), key) : key \in {"dayRegions", "slotBands", "ticksForMap", "bgWhite"} } \cup
    { WithoutKey(FullNav(1), "bgWhite") @@ [bg |-> SheetBg] }

PublishAvailSet ==
    { NoAvail, computeAvailFromFrozenNav(FullNav(1), [c \in CellsOf(FullNav(1)) |-> [free |-> TRUE, work |-> FALSE]]).avail }

PublishArgSet ==
    { [personName |-> person, fileName |-> file, nav |-> n, avail |-> a] :
        person \in {"", "Ana"}, file \in {"a.png", "b.png"},
        n \in PublishNavSet, a \in PublishAvailSet }

ResetCall ==
    /\ clock < MaxCalls
    /\ \E reason \in {"reset", "upload file selected"} : session' = resetSession(reason)
    /\ clock' = clock + 1
    /\ UNCHANGED classifyVars
    /\ UNCHANGED storeVars
    /\ UNCHANGED uploadVars
    /\ UNCHANGED probeVars
    /\ UNCHANGED <<LAST_PRE, LAST_NAV, TICK_LANE, phase1, navLog, navRes, status>>

PublishCall ==
    /\ clock < MaxCalls
    /\ \E a \in PublishArgSet : session' = publishSession(a)
    /\ clock' = clock + 1
    /\ UNCHANGED classifyVars
    /\ UNCHANGED storeVars
    /\ UNCHANGED uploadVars
    /\ UNCHANGED probeVars
    /\ UNCHANGED <<LAST_PRE, LAST_NAV, TICK_LANE, phase1, navLog, navRes, status>>

NextSession == ResetCall \/ PublishCall

SpecSession == InitNav /\ [][NextSession]_vars

\* C18: in window.__SAD_SESSION__ ready equals ok; a ready session has a nav
\* and an avail, the nav with dayRegions, slotBands, ticksForMap and bgWhite or
\* bg; a session that is not ready has neither nav nor avail
C18_SessionShape ==
    /\ session.ready = session.ok
    /\ session.ready =>
         /\ session.nav # NullNav
         /\ session.avail # NoAvail
         /\ ~Lacks(session.nav, "dayRegions")
         /\ ~Lacks(session.nav, "slotBands")
         /\ ~Lacks(session.nav, "ticksForMap")
         /\ ~Lacks(session.nav, "bgWhite") \/ ~Lacks(session.nav, "bg")
    /\ ~session.ready => session.nav = NullNav /\ session.avail = NoAvail

\* after an earlier call, a nav without slotBands was published together with an avail
C18_Witness ==
    /\ clock >= 2
    /\ ~session.ready
    /\ session.missing = <<"slotBands">>
    /\ session.personName = "Ana"

----------------------------------------------------------------------------
(* The two phases of an upload, Phase 1 suspended while its image decodes.   *)
(* The decode is the one await of runPhase1FromFile that waits for an event: *)
(* after it the drawing, the precompute (LAST_PRE is ready at the first test *)
(* of waitForPreReady), the nav build and the stash run without a break.     *)

FileName(k) == <<"a.png", "b.png", "c.png", "d.png">>[k]

\* the printed grid, blank or under a coloured wash; a grid without its fourth
\* line; a file of no pixels; a file that does not decode
UploadFileSet ==
    { WithDividers(ImageFile(l, GoodScan)) :
        l \in { <<NoLayer, NoLayer>>, << [rect |-> WholeSheet, c |-> YELLOW], NoLayer >> } } \cup
    { WithDividers([ImageFile(<<NoLayer, NoLayer>>, GoodScan) EXCEPT !.vlines = LinesWithout(4)]),
      [ImageFile(<<NoLayer, NoLayer>>, GoodScan) EXCEPT !.w = 0, !.h = 0],
      [ImageFile(<<NoLayer, NoLayer>>, GoodScan) EXCEPT !.kind = "undecodable", !.w = 0, !.h = 0] }

Working(msg) == [mode |-> "working", msg |-> msg, sub |-> <<>>]

\* the change handler of the file input: runPhase1FromFile up to the decode
BeginPhase1(f) ==
    /\ clock < MaxUploads
    /\ clock' = clock + 1
    /\ session' = resetSession("upload file selected")
    /\ phase1' = NoPhase1
    /\ status' = Working("Processing schedule image")
    /\ pending' = pending \cup { [id |-> clock + 1, name |-> FileName(clock + 1), file |-> f] }
    /\ selected' = [id |-> clock + 1, name |-> FileName(clock + 1)]
    /\ UNCHANGED <<LAST_PRE, LAST_NAV, TICK_LANE, navLog, navRes>>
    /\ UNCHANGED probeVars
    /\ UNCHANGED classifyVars
    /\ UNCHANGED storeVars

\* the image of a waiting run has decoded or failed to: the rest of runPhase1FromFile
FinishPhase1(run) ==
    /\ pending' = pending \ {run}
    /\ UNCHANGED <<session, selected, clock>>
    /\ UNCHANGED probeVars
    /\ UNCHANGED classifyVars
    /\ UNCHANGED storeVars
    /\ IF run.file.kind = "undecodable" THEN
           /\ status' = Failed(<<"Image decode failed">>)
           /\ UNCHANGED <<phase1, LAST_PRE, LAST_NAV, TICK_LANE, navLog, navRes>>
       ELSE LET r == buildAndPublishPrecompute(run.file, clock)
            IN /\ LAST_PRE' = r.LAST_PRE
               /\ IF ~r.ok THEN
                      /\ status' = Failed(<<"Precompute build failed: ", r.reason>>)
                      /\ UNCHANGED <<phase1, LAST_NAV, TICK_LANE, navLog, navRes>>
                  ELSE \E built \in computeFrozenNavFromPre(r.pre) :
                      LET nr == buildAndPublishNav(r.pre, built.nav, LAST_NAV)
                      IN /\ TICK_LANE' = built.lane
                         /\ navLog' = built.log
                         /\ navRes' = nr.res
                         /\ LAST_NAV' = nr.LAST_NAV
                         /\ phase1' = IF nr.res.ok
                                        THEN [navCore |-> nr.res.nav, fileName |-> run.name]
                                        ELSE phase1
                         /\ status' = IF nr.res.ok
                                        THEN [mode |-> "idle", msg |-> "Phase 1 complete.", sub |-> <<>>]
                                        ELSE Failed(<<"Nav build failed: ", nr.res.reason>>)

tryFinalizeNavWithStartTime(navCore, anchorStartTime) ==
    [f \in DOMAIN navCore \cup {"anchorStartTime"} |->
        IF f = "anchorStartTime" THEN anchorStartTime ELSE navCore[f]]

\* the start-time change handler and the confirm click: runPhase2Finalize
runPhase2Finalize(personName, startTime) ==
    IF phase1 = NoPhase1 THEN UNCHANGED vars
    ELSE IF LAST_PRE = NullPre THEN
        /\ status' = Working("Finalizing")
        /\ UNCHANGED <<LAST_PRE, LAST_NAV, TICK_LANE, session, phase1, navLog, navRes, clock>>
        /\ UNCHANGED classifyVars
        /\ UNCHANGED storeVars
        /\ UNCHANGED uploadVars
        /\ UNCHANGED probeVars
    ELSE
        /\ pre' = LAST_PRE
        /\ nav' = tryFinalizeNavWithStartTime(phase1.navCore, startTime)
        /\ spillPolicy' = "softFree"
        /\ \E r \in RndSet(LAST_PRE, nav') :
             /\ rnd' = r
             /\ cells' = ClassifyAll(LAST_PRE, nav', "softFree", r)
        /\ availRes' = computeAvailFromFrozenNav(nav', cells')
        /\ prevAvail' = availRes
        /\ IF ~availRes'.ok THEN
               /\ status' = Working("Finalizing")
               /\ UNCHANGED session
           ELSE
               /\ session' = publishSession(
                      [personName |-> personName, fileName |-> phase1.fileName, nav |-> nav',
                       avail |-> [availRes'.avail EXCEPT !.anchorStartTime = startTime]])
               /\ status' = [mode |-> "idle",
                             msg |-> IF session'.ready THEN "Ready to Add Schedule."
                                     ELSE "Finalize done, but session is not ready.",
                             sub |-> <<>>]
        /\ UNCHANGED <<LAST_PRE, LAST_NAV, TICK_LANE, phase1, navLog, navRes, clock>>
        /\ UNCHANGED storeVars
        /\ UNCHANGED uploadVars
        /\ UNCHANGED probeVars

SelectUpload == \E f \in UploadFileSet : BeginPhase1(f)

Decoded == \E run \in pending : FinishPhase1(run)

StartTimeChanged == \E personName \in {"", "Ana"}, startTime \in {"8:00 AM", "9:30 AM"} :
                        runPhase2Finalize(personName, startTime)

NextUpload == SelectUpload \/ Decoded \/ StartTimeChanged

SpecUpload == InitNav /\ [][NextUpload]_vars

----------------------------------------------------------------------------
(* Claims about the two-phase upload (SpecUpload) *)

\* a ready session is that of the file selected last
ReadyIsOfSelected == session.ready => session.fileName = selected.name

\* a step of Phase 1 (a run starts or leaves its decode) publishes nothing
Phase1Publishes == pending' # pending /\ session' # session /\ session'.ready

\* a step that is not of Phase 1, taken without a stash, changes something
Phase2ActsWithoutStash == pending' = pending /\ phase1 = NoPhase1

\* C19: from the selection of a file on, __SAD_SESSION__.ready is false until
\* runPhase2Finalize has computed availability for that file's Phase-1 nav and
\* published it; Phase 1 publishes no ready session; Phase 2 does nothing
\* while no Phase-1 result is stashed
C19_ReadyOnlyAfterPhase2 ==
    /\ []ReadyIsOfSelected
    /\ [][~Phase1Publishes /\ ~Phase2ActsWithoutStash]_vars

C19_Phase1Silent == [][~Phase1Publishes /\ ~Phase2ActsWithoutStash]_vars

----------------------------------------------------------------------------
(* The storage API: upsertSchedule, deleteScheduleById, clearAllSchedules,   *)
(* loadSchedulesList.  Each operator gives the value the key is left with.   *)

\* { ...existing, ...p }
Merge(existing, p) ==
    [f \in DOMAIN existing \cup DOMAIN p |-> IF f \in DOMAIN p THEN p[f] ELSE existing[f]]

IndexOfId(list, id) ==
    IF \E k \in 1..Len(list) : list[k].id = id
      THEN CHOOSE k \in 1..Len(list) : list[k].id = id /\ \A j \in 1..(k - 1) : list[j].id # id
      ELSE 0

upsertScheduleRecord(raw, partial, now) ==
    LET list == loadSchedulesList(raw, now).list
        id == Field(partial, "id", 0)
        at == IF id # 0 THEN IndexOfId(list, id) ELSE 0
        merged == IF at > 0 THEN Merge(list[at], partial) ELSE partial
        normalized == normalizeRecord(merged, now, 0)
        idx == IndexOfId(list, normalized.id)
    IN saveSchedulesList(IF idx > 0 THEN [list EXCEPT ![idx] = normalized]
                         ELSE <<normalized>> \o list, now).storage

deleteScheduleRecord(raw, id, now) ==
    IF id = 0 THEN loadSchedulesList(raw, now).storage
    ELSE saveSchedulesList(SelectSeq(loadSchedulesList(raw, now).list, LAMBDA r : r.id # id),
                           now).storage

clearAllSchedules == NoKey

\* the lists that are enumerated: what an earlier version or a user may have
\* left under the key, and lists at the soft cap
BadNav == [StoredNav EXCEPT !.bgWhite = NullBg]
GridAvail == SavedAvail(T800, <<TRUE, FALSE>>, <<>>, 2)
ShortFridayAvail == SavedAvail(T800, <<TRUE, FALSE>>, <<>>, 1)

LongList(n) == [k \in 1..n |-> SavedRecord(k, "Pat", k, NullNav, NullAvail)]

StorageSet ==
    { NoKey, Stored(<<>>),
      Stored(<< SavedRecord(1, "Ana", 10, StoredNav, GridAvail),
                SavedRecord(2, "Ben", 20, BadNav, GridAvail),
                SavedRecord(1, "Ana", 30, StoredNav, ShortFridayAvail) >>),
      Stored(<< [person |-> "Cy"], [person |-> "Di", nav |-> StoredNav, avail |-> GridAvail],
                SavedRecord(3, "Eve", 20, StoredNav, GridAvail) >>),
      Stored(sanitizeSchedulesList(LongList(MAX_SCHEDULES_SOFT), 0)),
      Stored(LongList(MAX_SCHEDULES_SOFT + 1)) }

PartialSet ==
    { <<>>,
      [person |-> "Flo", nav |-> StoredNav, avail |-> GridAvail],
      [id |-> 1, person |-> "Ann"],
      [id |-> 2, savedAtISO |-> 5, nav |-> BadNav, avail |-> GridAvail],
      [id |-> 3, savedAtISO |-> 50, nav |-> StoredNav, avail |-> ShortFridayAvail],
      [id |-> 60, savedAtISO |-> 1] }

IdSet == { 0, 1, 3, MAX_SCHEDULES_SOFT }

StoreOp(next) ==
    /\ clock < MaxOps
    /\ clock' = clock + 1
    /\ storage' = next
    /\ UNCHANGED classifyVars
    /\ UNCHANGED uploadVars
    /\ UNCHANGED probeVars
    /\ UNCHANGED <<LAST_PRE, LAST_NAV, TICK_LANE, session, phase1, navLog, navRes, status, queryRes>>

UpsertSchedule == \E partial \in PartialSet : StoreOp(upsertScheduleRecord(storage, partial, clock + 1))

DeleteScheduleById == \E id \in IdSet : StoreOp(deleteScheduleRecord(storage, id, clock + 1))

ClearAllSchedules == StoreOp(clearAllSchedules)

LoadSchedulesList == StoreOp(loadSchedulesList(storage, clock + 1).storage)

InitStore ==
    /\ BootNav
    /\ pre = BlankSheet
    /\ nav = FullNav(1)
    /\ spillPolicy = "softFree"
    /\ rnd = <<>>
    /\ cells = <<>>
    /\ availRes = NoRes
    /\ prevAvail = NoRes
    /\ storage \in StorageSet

NextStore == UpsertSchedule \/ DeleteScheduleById \/ ClearAllSchedules \/ LoadSchedulesList

SpecStore == InitStore /\ [][NextStore]_vars

\* C20: after any calls of the storage API the list under the key has pairwise
\* distinct ids and at most 60 records, is ordered by savedAtISO descending,
\* and a record has flags.queryable exactly when its nav and its avail are
\* both non-null
C20_StoredListClean ==
    (clock >= 1 /\ storage.present) =>
      LET list == storage.list
      IN /\ \A i \in 1..Len(list), j \in 1..Len(list) : i # j => list[i].id # list[j].id
         /\ Len(list) <= 60
         /\ \A i \in 1..(Len(list) - 1) : list[i].savedAtISO >= list[i + 1].savedAtISO
         /\ \A i \in 1..Len(list) :
              list[i].flags.queryable = (list[i].nav # NullNav /\ list[i].avail # NullAvail)

\* a list at the cap that holds a queryable record next to records whose nav
\* and avail were nulled
C20_Witness ==
    /\ clock >= 2
    /\ storage.present
    /\ Len(storage.list) = MAX_SCHEDULES_SOFT
    /\ \E i \in 1..Len(storage.list) : storage.list[i].flags.queryable
    /\ \E i \in 1..Len(storage.list) :
         ~storage.list[i].flags.queryable /\ storage.list[i].nav = NullNav

----------------------------------------------------------------------------
(* The ladder against the validated chain it is built from *)

IsPrefixOf(s, t) == Len(s) <= Len(t) /\ \A i \in 1..Len(s) : s[i] = t[i]

LadderBuilt == LadderRan /\ navLog.g.stopReason # "missing inputs"

\* C21: the ladder extends the validated ticks: the validated tick list is a
\* prefix of the ladder's ticks, and every tick after that prefix lies below
\* the last validated tick
C21_LadderExtendsValidated ==
    LadderBuilt =>
      /\ IsPrefixOf(navLog.v.ticks, navLog.g.ticks)
      /\ \A i \in (Len(navLog.v.ticks) + 1)..Len(navLog.g.ticks) :
            navLog.g.ticks[i] > navLog.v.ticks[Len(navLog.v.ticks)]

----------------------------------------------------------------------------
(* The validated chain *)

ChainReturned ==
    navLog.v # NotRun /\ navLog.v.reason \in {"ok", "too few validated ticks"}

\* twice the distance of a gap from dy
GapOff2(v, i) == Abs(2 * (v.ticks[i + 1] - v.ticks[i]) - v.dy2)

\* C22 as stated: every two consecutive validated ticks differ by dy within
\* the snap window, dy - snapWin <= gap <= dy + snapWin
C22_Original ==
    ChainReturned =>
      \A i \in 1..(Len(navLog.v.ticks) - 1) : GapOff2(navLog.v, i) <= 2 * navLog.v.snapWin

\* C22: in the chain returned by validateTicksFromFirst the k-th tick after
\* the first lies within snapWin = clamp(round(0.10*dy), 4, 18) of the first
\* tick plus k*dy, so two consecutive ticks differ by dy within twice the snap
\* window
C22_ChainOnExpectedRows ==
    ChainReturned =>
      /\ navLog.v.snapWin = clamp((navLog.v.dy2 + 10) \div 20, 4, 18)
      /\ \A k \in 1..Len(navLog.v.ticks) :
            Abs(2 * navLog.v.ticks[k] - (2 * navLog.v.ticks[1] + (k - 1) * navLog.v.dy2))
               <= 2 * navLog.v.snapWin
      /\ \A i \in 1..(Len(navLog.v.ticks) - 1) : GapOff2(navLog.v, i) <= 4 * navLog.v.snapWin

\* a validated chain of six ticks or more with a gap that differs from dy by
\* more than the snap window
C22_Witness ==
    /\ ChainReturned
    /\ navLog.v.ok
    /\ \E i \in 1..(Len(navLog.v.ticks) - 1) : GapOff2(navLog.v, i) > 2 * navLog.v.snapWin

----------------------------------------------------------------------------
(* The steps of the ladder.  The step that looks for tick number k + 1 reads *)
(* the evidence at index k.                                                  *)

\* the ladder looked for the tick after its k-th tick
StepTaken(g, k) ==
    \/ k < Len(g.ticks)
    \/ k = Len(g.ticks) /\ g.stopReason \notin {"hit image bottom", "unknown", "missing inputs"}

LeftTable == {"left table (row band failed)", "left table (row band failed on retry)"}

\* no peak, three dividers or more, fewer than three plausible day interiors
RowGateFails(ev) == ev.h = "none" /\ ev.vHits >= 3 /\ ~ev.row

LaneTicks(g) == { i \in 1..Len(g.trace) : g.trace[i].how = "lane" }

\* the terminal recovery ran: only its path leaves stopReason at the reason
\* of the failed peak
TerminalAttempted(g) == g.stopReason = "no strong line peak"

\* the evidence index of the step that stopped the ladder
LastStep(g) == Len(g.ticks) - Cardinality(LaneTicks(g))

\* C24: the terminal recovery is attempted at most once per ladder build (the
\* pass that attempts it is the last pass: every other pass appended a tick or
\* spent the allowed gap) and only at a step where the horizontal-peak cue and
\* the vertical cue both failed; it appends at most one tick and the loop
\* stops afterwards, so a tick appended by it is the last element of the
\* returned ladder
C24_TerminalRecoveryLast ==
    LadderBuilt =>
      /\ Cardinality(LaneTicks(navLog.g)) <= 1
      /\ \A i \in LaneTicks(navLog.g) :
            /\ i = Len(navLog.g.trace)
            /\ i + 1 = Len(navLog.g.ticks)
            /\ TerminalAttempted(navLog.g)
      /\ TerminalAttempted(navLog.g) =>
            /\ EvidenceAt(LAST_PRE, LastStep(navLog.g)).h = "none"
            /\ EvidenceAt(LAST_PRE, LastStep(navLog.g)).vHits < 3
            /\ navLog.g.steps = LastStep(navLog.g) + navLog.g.allowedGapUsed

\* a ladder of peaks and divider rows that a lane tick ends
C24_Witness ==
    /\ LadderBuilt
    /\ LaneTicks(navLog.g) = {Len(navLog.g.trace)}
    /\ Len(navLog.g.ticks) >= 4
    /\ "vertical" \in Hows(navLog.g.trace)
    /\ EvidenceAt(LAST_PRE, LastStep(navLog.g)).vHits < 3

\* the positions of the trace whose tick was accepted with two dividers
RelaxedTicks(g) == { i \in 1..Len(g.trace) : g.trace[i].how = "retry" }

----------------------------------------------------------------------------
(* Calls of buildGlobalTickLadder from outside the nav builder.  The ladder  *)
(* takes pre, vTicks, dy and opts; its terminal recovery also reads          *)
(* window.__TICK_LANE__.                                                     *)

MaxLadderCalls == 2

\* window.__TICK_LANE__ after resetAfterAddScheduleUI
NoLane == [isLane |-> FALSE]

\* the pixel lane computeFrozenNavFromPre stores in window.__TICK_LANE__
TickLaneOf(p) ==
    [x0 |-> (p.w * pickBestTickLane(p).x0Frac) \div 1000,
     x1 |-> (p.w * pickBestTickLane(p).x1Frac) \div 1000,
     x0Frac |-> pickBestTickLane(p).x0Frac, x1Frac |-> pickBestTickLane(p).x1Frac]

\* what findBestLaneMarkNearY finds on p with lane: window.__TICK_LANE__ || null.
\* The lane evidence of p is that of its own tick lane; without a lane the
\* function returns null at every row
SeenThroughLane(p, tickLane) ==
    IF tickLane = TickLaneOf(p) THEN p
    ELSE [p EXCEPT !.scan.steps = [k \in 1..Len(p.scan.steps) |->
                                     [p.scan.steps[k] EXCEPT !.lane = "none"]],
                   !.scan.tail = [p.scan.tail EXCEPT !.lane = "none"]]

\* buildGlobalTickLadder(pre, vTicks, dy, {dividerXs, dayRegions}) called while
\* window.__TICK_LANE__ holds tickLane
LadderCall(tickLane, args) ==
    buildGlobalTickLadder(SeenThroughLane(args.pre, tickLane), args.vTicks, args.dy2,
                          args.dividerXs)

\* the arguments the nav builder passed to the ladder in its last run
LastLadderArgs ==
    [pre |-> LAST_PRE, vTicks |-> navLog.v.ticks, dy2 |-> navLog.v.dy2,
     dividerXs |-> navLog.fr.xs]

\* the ladder is called with the arguments of the nav builder's call, or of
\* the first call made here
CallLadder ==
    /\ Len(ladderCalls) < MaxLadderCalls
    /\ ladderCalls = <<>> => LadderRan
    /\ LET args == IF ladderCalls = <<>> THEN LastLadderArgs ELSE ladderCalls[1].args
       IN ladderCalls' = Append(ladderCalls, [args |-> args, lane |-> TICK_LANE,
                                              res |-> LadderCall(TICK_LANE, args)])
    /\ UNCHANGED <<classifyVars, navVars, storeVars, uploadVars, prefixRun>>

\* resetAfterAddScheduleUI: the file input is cleared and the upload-time
\* globals that exist are nulled.  window.LAST_PRE is nulled and
\* window.__LAST_PRE__ is not, so what readers of LAST_PRE || __LAST_PRE__ get
\* stays
ResetAfterAddScheduleUI ==
    /\ selected' = [id |-> 0, name |-> ""]
    /\ TICK_LANE' = IF TICK_LANE = NotRun THEN NotRun ELSE NoLane
    /\ UNCHANGED <<LAST_PRE, LAST_NAV, session, phase1, navLog, navRes, status, clock>>
    /\ UNCHANGED <<classifyVars, storeVars, pending, probeVars>>

NextReplay == SelectLadderFile \/ ResetAfterAddScheduleUI \/ CallLadder

SpecReplay == InitNav /\ [][NextReplay]_vars

\* C26: two calls of buildGlobalTickLadder with identical (pre, vTicks, dy,
\* opts) return identical ticks and stopReason, whatever happened between the
\* calls: the result does not depend on window.__TICK_LANE__
C26_LadderDeterministic ==
    \A i \in 1..Len(ladderCalls), j \in 1..Len(ladderCalls) :
       ladderCalls[i].args = ladderCalls[j].args =>
          /\ ladderCalls[i].res.ticks = ladderCalls[j].res.ticks
          /\ ladderCalls[i].res.stopReason = ladderCalls[j].res.stopReason

----------------------------------------------------------------------------
(* The slot bands built from the ladder *)

SlotsBuilt == LadderBuilt /\ navLog.g.ok

\* the band lies between the printed lines of ticks i and i + 1
BetweenLines(p, ticks, i, b) ==
    /\ b.yStart = estimateLineBandAtTick(p, ticks[i]).y1
    /\ b.yEnd = estimateLineBandAtTick(p, ticks[i + 1]).y0
    /\ b.yStart > ticks[i]
    /\ b.yEnd <= ticks[i + 1]

\* C27: every slot band returned by buildSlotBandsFromTicks spans from the
\* bottom edge of one tick's printed line to the top edge of the next tick's
\* line and is at least 8 rows high; the bands are in increasing y order and
\* pairwise disjoint, each ending at or before the start of the next; and
\* there are at most (number of ticks - 1) bands
C27_SlotBandsBetweenLines ==
    SlotsBuilt =>
      /\ \A k \in 1..Len(navLog.slots) :
            /\ \E i \in 1..(Len(navLog.g.ticks) - 1) :
                  BetweenLines(LAST_PRE, navLog.g.ticks, i, navLog.slots[k])
            /\ navLog.slots[k].yEnd - navLog.slots[k].yStart >= 8
      /\ \A k \in 1..(Len(navLog.slots) - 1) :
            /\ navLog.slots[k].yStart < navLog.slots[k + 1].yStart
            /\ navLog.slots[k].yEnd <= navLog.slots[k + 1].yStart
      /\ Len(navLog.slots) <= Len(navLog.g.ticks) - 1

\* bands on both sides of a gap between two ticks that is too low for a band
C27_Witness ==
    /\ SlotsBuilt
    /\ Len(navLog.slots) >= 2
    /\ Len(navLog.slots) < Len(navLog.g.ticks) - 1
    /\ \E k \in 1..(Len(navLog.slots) - 1) : navLog.slots[k].botTick # navLog.slots[k + 1].topTick

----------------------------------------------------------------------------
(* Layer E0: the prefix-sum table of a binary mask and the rectangle sums    *)
(* over it.  A mask is the row-major array of its w*h entries; the table is  *)
(* 0-based with (w+1)*(h+1) entries.  The entries are Uint32: a mask that a  *)
(* canvas can hold has fewer than 2^32 pixels, so no entry wraps.  The       *)
(* rectSum in force is the top-level declaration, which is hoisted over the  *)
(* conditional one of Layer E0.                                              *)

MaxMaskW == 3
MaxMaskH == 2

\* rowSum after the inner loop reached column x of table row y
RECURSIVE RowSumAt(_, _, _, _)
RowSumAt(mask, w, y, x) ==
    IF x = 0 THEN 0 ELSE RowSumAt(mask, w, y, x - 1) + mask[(y - 1) * w + (x - 1) + 1]

\* P[y * W + x] = P[(y - 1) * W + x] + rowSum; row 0 and column 0 are never written
RECURSIVE PrefixAt(_, _, _, _)
PrefixAt(mask, w, y, x) ==
    IF y = 0 \/ x = 0 THEN 0 ELSE PrefixAt(mask, w, y - 1, x) + RowSumAt(mask, w, y, x)

buildPrefixFromMask(mask, w, h) ==
    [P |-> [k \in 0..((w + 1) * (h + 1) - 1) |-> PrefixAt(mask, w, k \div (w + 1), k % (w + 1))],
     W |-> w + 1]

\* rectSum without the corner term A
rectSum_NoCorner(P, W, x0, y0, x1, y1) ==
    P[y1 * W + x1] - P[y0 * W + x1] - P[y1 * W + x0]

\* prefix[D] - prefix[B] - prefix[C] + prefix[A]
rectSum(P, W, x0, y0, x1, y1) ==
    P[y1 * W + x1] - P[y0 * W + x1] - P[y1 * W + x0] + P[y0 * W + x0]

MaskSet ==
    UNION { { [mask |-> m, w |-> w, h |-> h] : m \in [1..(w * h) -> {0, 1}] } :
            w \in 1..MaxMaskW, h \in 1..MaxMaskH }

InitPrefix ==
    /\ BootState
    /\ storage = [present |-> FALSE, list |-> <<>>]
    /\ pre = BlankSheet
    /\ nav = FullNav(1)
    /\ spillPolicy = "softFree"
    /\ rnd = <<>>
    /\ cells = <<>>
    /\ availRes = NoRes
    /\ prevAvail = NoRes
    /\ \E m \in MaskSet :
         prefixRun = [mask |-> m.mask, w |-> m.w, h |-> m.h, table |-> NotRun, query |-> NotRun]

\* the table is built for the mask
BuildPrefix ==
    /\ prefixRun.table = NotRun
    /\ prefixRun' = [prefixRun EXCEPT
                       !.table = buildPrefixFromMask(prefixRun.mask, prefixRun.w, prefixRun.h)]
    /\ UNCHANGED <<classifyVars, navVars, storeVars, uploadVars, ladderCalls>>

\* a rectangle 0 <= x0 <= x1 <= w, 0 <= y0 <= y1 <= h is summed over the table
RectSum ==
    /\ prefixRun.table # NotRun
    /\ prefixRun.query = NotRun
    /\ \E x0 \in 0..prefixRun.w, y0 \in 0..prefixRun.h :
         \E x1 \in x0..prefixRun.w, y1 \in y0..prefixRun.h :
            prefixRun' = [prefixRun EXCEPT
                            !.query = [x0 |-> x0, y0 |-> y0, x1 |-> x1, y1 |-> y1,
                                       sum |-> rectSum(prefixRun.table.P, prefixRun.table.W,
                                                       x0, y0, x1, y1)]]
    /\ UNCHANGED <<classifyVars, navVars, storeVars, uploadVars, ladderCalls>>

NextPrefix == BuildPrefix \/ RectSum

SpecPrefix == InitPrefix /\ [][NextPrefix]_vars

\* the 1-entries of the mask in [x0, x1) x [y0, y1), pixel (x, y) at y * w + x
OnesIn(r, q) ==
    Cardinality({ k \in 1..(r.w * r.h) :
                    /\ r.mask[k] = 1
                    /\ (k - 1) % r.w >= q.x0 /\ (k - 1) % r.w < q.x1
                    /\ (k - 1) \div r.w >= q.y0 /\ (k - 1) \div r.w < q.y1 })

\* C28: for every binary mask of size w*h and every rectangle 0 <= x0 <= x1
\* <= w, 0 <= y0 <= y1 <= h, rectSum over the table built by
\* buildPrefixFromMask is the number of 1-entries of the mask in
\* [x0, x1) x [y0, y1); the table has (w+1)*(h+1) entries and its row 0 and
\* column 0 are 0
C28_RectSumExact ==
    /\ prefixRun # NotRun /\ prefixRun.table # NotRun =>
          /\ prefixRun.table.W = prefixRun.w + 1
          /\ DOMAIN prefixRun.table.P = 0..((prefixRun.w + 1) * (prefixRun.h + 1) - 1)
          /\ \A x \in 0..prefixRun.w : prefixRun.table.P[x] = 0
          /\ \A y \in 0..prefixRun.h : prefixRun.table.P[y * prefixRun.table.W] = 0
    /\ prefixRun # NotRun /\ prefixRun.query # NotRun =>
          prefixRun.query.sum = OnesIn(prefixRun, prefixRun.query)

\* an inner rectangle that holds some but not all of the mask's 1-entries
C28_Witness ==
    /\ prefixRun # NotRun
    /\ prefixRun.query # NotRun
    /\ prefixRun.query.x0 >= 1 /\ prefixRun.query.y0 >= 1
    /\ prefixRun.query.sum >= 1
    /\ prefixRun.query.sum < OnesIn(prefixRun, [x0 |-> 0, y0 |-> 0, x1 |-> prefixRun.w, y1 |-> prefixRun.h])

----------------------------------------------------------------------------
(* The day regions of a nav that was built *)

\* C29: every day region frozen by a successful nav build is non-empty and
\* the regions do not overlap: the six divider x are pairwise distinct, so
\* x0 < x1 holds for each of the five weekdays
C29_RegionsNonEmpty ==
    NavBuilt =>
      /\ \A i \in 1..6, j \in 1..6 : i # j => navRes.nav.dividerXs[i] # navRes.nav.dividerXs[j]
      /\ \A d \in WeekdaySet : navRes.nav.dayRegions[d].x0 < navRes.nav.dayRegions[d].x1
      /\ \A d \in WeekdaySet, e \in WeekdaySet :
            DayIndex(d) < DayIndex(e) => navRes.nav.dayRegions[d].x1 <= navRes.nav.dayRegions[e].x0

----------------------------------------------------------------------------
(* Overlapping runs of Phase 1 *)

\* two files or more were selected and no run of Phase 1 is waiting
RunsFinished == clock >= 2 /\ pending = {}

StashOfSelected == (RunsFinished /\ phase1 # NoPhase1) => phase1.fileName = selected.name

\* a step that stashes pairs the name of the run that finished with the nav
\* built from the pixels of that run's file
StashFromOneRun ==
    (phase1' # phase1 /\ phase1' # NoPhase1) =>
       \E run \in pending :
          /\ pending' = pending \ {run}
          /\ phase1'.fileName = run.name
          /\ LAST_PRE' = buildAndPublishPrecompute(run.file, clock).pre
          /\ phase1'.navCore = navRes'.nav

\* C30: when a second image is selected while Phase 1 of the first is still
\* suspended, then once both runs have finished the stash (__PHASE1__) is that
\* of the file selected last and its navCore was computed from that file's
\* pixels, the stashed name and geometry always being those of one run
C30_StashOfLastSelected ==
    /\ []StashOfSelected
    /\ [][StashFromOneRun]_vars

====
